---- MODULE Spec2Model ----
(***************************************************************************)
(* Navigation export and batch processing of the SEG-Y viewer              *)
(* (src/segy_viewer.py).                                                   *)
(*                                                                         *)
(* A trace-header cell is [k, v]: k = "int" for a number held in the       *)
(* DataFrame, "nan" for a missing cell (pandas NaN), "none" for a key the  *)
(* row does not have (Series.get returns its default).                     *)
(* A Python float is [k, n, d]: k = "num" for the exact rational n / d     *)
(* (d > 0), k = "nan" for NaN.  Rounding of IEEE arithmetic is not         *)
(* modelled; NaN propagates through * and / and compares false.            *)
(***************************************************************************)
EXTENDS Integers, Sequences, FiniteSets, TLC

VARIABLES
    \* ---- navigation export (one header table, one export call) ----
    trace_headers,   \* the DataFrame handed to the export: Seq of header rows
    export_path,     \* "none" | "batch" | "interactive": which export ran
    cdp_data,        \* point records collected by the trace loop
    line_coords,     \* polyline vertices collected by the trace loop
    source_xy,       \* per trace, the loop locals (source_x, source_y) after the fallbacks
    point_path,      \* returned point path: "none" or "points"
    line_path,       \* returned line path: "none" or "line"
    line_data,       \* the polyline record handed to the writer, <<>> or <<rec>>
    written,         \* files the writer completed: subset of {"points", "line"}
    raised,          \* exception leaving the export: "" when none
    \* ---- _format_datetime_from_trace on one row ----
    trace_data,      \* the row given to the formatter
    dt_result,       \* <<>> before the call, <<value>> after it
    \* ---- batch_process ----
    filenames,       \* the selected input files, in dialog order
    pc,              \* "idle" | "check" | "events" | "exit" | "done"
    file_index,      \* i of the for loop: files consumed so far
    wasCanceled,     \* progress.wasCanceled()
    processed_count,
    error_count,
    all_point_shapefiles,
    all_line_shapefiles,
    load_log,        \* indices handed to _load_segy_file_data, in call order
    status_log,      \* statusBar messages issued by the loop, as file indices
    combined,        \* "none" | "written" | "failed": the merge step
    disk,            \* per-file outputs in the output directory: set of [path, from, rows]
    combined_points, \* records of SEGY_Combined_Nav_points.shp, <<>> when not written
    combined_lines,  \* records of SEGY_Combined_Nav_line.shp, <<>> when not written
    completion_message, \* the closing message box: [shown, processed, errors, combined]
    \* ---- amplitude controls and the three renderers ----
    current_data,     \* the loaded sample matrix (traces of samples), <<>> before a load
    current_file_info,\* [n_traces, twt] of the loaded file
    clip_enabled,     \* clip_checkbox.isChecked()
    std_dev_enabled,  \* std_dev_checkbox.isChecked()
    clip_percentile,  \* clip_spinbox.value()
    std_dev_value,    \* std_dev_spinbox.value(), in tenths
    depth_mode,       \* depth_mode_checkbox.isChecked()
    velocity,         \* velocity_spinbox.value()
    shown,            \* what plot_segy_data last drew, NoRender before a load
    exported,         \* the last full-resolution save or batch render made under
                      \* the present settings, NoRender when there is none
    both_plotted,     \* some plot_segy_data call was given both policies enabled
    \* ---- single calls and the rest of the window ----
    range_result,     \* outcome of one call of a renderer: [raised, clipped, render]
    current_bin_headers, \* the binary header of the loaded file: sequence of [field, value]
    headers_text,     \* the binary-header lines update_headers_display wrote
    saved_text,       \* the binary-header lines _save_header_info_for_file wrote
    field_description, \* the last click: [widget, word, pane], pane what field_description_text shows
    utm_x, utm_y,     \* the coordinates handed to _is_utm_coordinates
    utm_units,        \* coord_units at the choice of the spatial reference
    utm_result,       \* [utm, crs, x, y] once the reference is chosen
    current_trace_number, \* the selected trace of the window
    trace_number_input    \* text of the trace-number field, a sequence of characters

navVars == <<trace_headers, export_path, cdp_data, line_coords, source_xy,
             point_path, line_path, line_data, written, raised>>
timeVars == <<trace_data, dt_result>>
batchVars == <<filenames, pc, file_index, wasCanceled, processed_count,
               error_count, all_point_shapefiles, all_line_shapefiles,
               load_log, status_log, combined, disk, combined_points,
               combined_lines, completion_message>>
ampVars == <<current_data, current_file_info, clip_enabled, std_dev_enabled,
             clip_percentile, std_dev_value, depth_mode, velocity, shown, exported,
             both_plotted>>
headerVars == <<current_bin_headers, headers_text, saved_text, field_description>>
utmVars == <<utm_x, utm_y, utm_units, utm_result>>
selVars == <<current_trace_number, trace_number_input>>
uiVars == <<range_result, headerVars, utmVars, selVars>>
vars == <<navVars, timeVars, batchVars, ampVars, uiVars>>

---------------------------------------------------------------------------
\* Bounds of the model
MaxTraces == 3
MaxFiles == 3

---------------------------------------------------------------------------
\* Header cells and floats

None == [k |-> "none", v |-> 0]
NaN == [k |-> "nan", v |-> 0]
Cell(n) == [k |-> "int", v |-> n]

IsNone(c) == c.k = "none"
\* pd.isna(c)
IsNa(c) == c.k = "nan"

FNaN == [k |-> "nan", n |-> 0, d |-> 1]
Float(n, d) == [k |-> "num", n |-> n, d |-> d]

\* float(cell) of a cell that is not None
FloatOf(c) == IF c.k = "nan" THEN FNaN ELSE Float(c.v, 1)

Abs(n) == IF n < 0 THEN 0 - n ELSE n

\* a * s and a / s for a float a and a non-zero integer s
FMul(a, s) == IF a.k = "nan" THEN FNaN ELSE Float(a.n * s, a.d)
FDiv(a, s) == IF a.k = "nan" THEN FNaN
              ELSE IF s > 0 THEN Float(a.n, a.d * s) ELSE Float(0 - a.n, a.d * (0 - s))

\* a == b on floats (NaN equals nothing)
FEq(a, b) == a.k = "num" /\ b.k = "num" /\ a.n * b.d = b.n * a.d

EpsDenominator == 1000000
\* abs(float(c)) < 1e-6
NearZero(c) == c.k = "int" /\ Abs(c.v) * EpsDenominator < 1

---------------------------------------------------------------------------
\* _format_datetime_from_trace

NoDatetime == [kind |-> "none", year |-> 0, day |-> 0, hour |-> 0, minute |-> 0, second |-> 0]
EmptyString == [kind |-> "empty", year |-> 0, day |-> 0, hour |-> 0, minute |-> 0, second |-> 0]

Missing(c) == IsNone(c) \/ IsNa(c)

FormatDatetime_le50(td) ==
    IF Missing(td.YearDataRecorded) \/ Missing(td.DayOfYear) THEN NoDatetime
    ELSE LET y0 == td.YearDataRecorded.v
             year == IF y0 < 100 THEN (IF y0 <= 50 THEN 2000 + y0 ELSE 1900 + y0) ELSE y0
             day == td.DayOfYear.v
         IN IF ~Missing(td.HourOfDay) /\ ~Missing(td.MinuteOfHour)
            THEN [kind |-> "datetime", year |-> year, day |-> day,
                  hour |-> td.HourOfDay.v, minute |-> td.MinuteOfHour.v,
                  second |-> IF ~Missing(td.SecondOfMinute) THEN td.SecondOfMinute.v ELSE 0]
            ELSE [kind |-> "date", year |-> year, day |-> day,
                  hour |-> 0, minute |-> 0, second |-> 0]

\* The returned string "YYYY-DOY HH:MM:SS" / "YYYY-DOY" is kept as its
\* fields; kind "none" is the None return.
FormatDatetimeFromTrace(td) ==
    IF Missing(td.YearDataRecorded) \/ Missing(td.DayOfYear) THEN NoDatetime
    ELSE LET y0 == td.YearDataRecorded.v
             year == IF y0 < 100 THEN (IF y0 < 50 THEN 2000 + y0 ELSE 1900 + y0) ELSE y0
             day == td.DayOfYear.v
         IN IF ~Missing(td.HourOfDay) /\ ~Missing(td.MinuteOfHour)
            THEN [kind |-> "datetime", year |-> year, day |-> day,
                  hour |-> td.HourOfDay.v, minute |-> td.MinuteOfHour.v,
                  second |-> IF ~Missing(td.SecondOfMinute) THEN td.SecondOfMinute.v ELSE 0]
            ELSE [kind |-> "date", year |-> year, day |-> day,
                  hour |-> 0, minute |-> 0, second |-> 0]

\* `trace_datetime if trace_datetime else ''`
OrEmpty(dt) == IF dt.kind = "none" THEN EmptyString ELSE dt

---------------------------------------------------------------------------
\* Trace loop of _save_shapefile_for_file (batch export)

\* Series.get(key, default) followed by use as a number
GetInt(c, default) == IF IsNone(c) THEN default ELSE c.v

ArcSecondsPerDegree == 3600

\* lines 2747-2757: Source, then Group, then CDP, on `is None` only
SaveSelectPair(td) ==
    LET p1 == <<td.SourceX, td.SourceY>>
        p2 == IF IsNone(p1[1]) \/ IsNone(p1[2]) THEN <<td.GroupX, td.GroupY>> ELSE p1
        p3 == IF IsNone(p2[1]) \/ IsNone(p2[2]) THEN <<td.CDP_X, td.CDP_Y>> ELSE p2
    IN p3

SaveApplyScalar_mul(c, s) ==
    IF s > 0 THEN FMul(FloatOf(c), s)
    ELSE IF s < 0 THEN FMul(FloatOf(c), Abs(s))
    ELSE FloatOf(c)

\* lines 2771-2781
SaveApplyScalar(c, s) ==
    IF s > 0 THEN FMul(FloatOf(c), s)
    ELSE IF s < 0 THEN FDiv(FloatOf(c), Abs(s))
    ELSE FloatOf(c)

\* lines 2783-2796
SaveConvertUnits(f, coord_units) ==
    IF coord_units = 1 THEN f
    ELSE IF coord_units = 2 THEN FDiv(f, ArcSecondsPerDegree)
    ELSE IF coord_units = 3 THEN f
    ELSE IF coord_units = 4 THEN f
    ELSE f

SaveAppend_prepend(acc, rec, xy) ==
    [acc EXCEPT !.line_coords = <<xy>> \o @, !.cdp_data = Append(@, rec)]

\* lines 2798 and 2803: the vertex and the point record of one surviving trace
SaveAppend(acc, rec, xy) ==
    [acc EXCEPT !.line_coords = Append(@, xy), !.cdp_data = Append(@, rec)]

\* one iteration of the loop at line 2744; trace_num is the DataFrame index
SaveTraceStep(acc, td, trace_num) ==
    LET xy == SaveSelectPair(td)
        acc1 == [acc EXCEPT !.source_xy = Append(@, xy)]
    IN IF IsNone(xy[1]) \/ IsNone(xy[2]) THEN acc1
       ELSE IF NearZero(xy[1]) /\ NearZero(xy[2]) THEN acc1
       ELSE LET coord_units == IF acc.cdp_data = <<>>
                               THEN GetInt(td.CoordinateUnits, 2)
                               ELSE acc.coord_units
                source_group_scalar == GetInt(td.SourceGroupScalar, 1)
                x_coord == SaveConvertUnits(SaveApplyScalar(xy[1], source_group_scalar), coord_units)
                y_coord == SaveConvertUnits(SaveApplyScalar(xy[2], source_group_scalar), coord_units)
                rec == [geometry |-> <<x_coord, y_coord>>,
                        CDP_NUM |-> GetInt(td.CDP, trace_num),
                        TRACE_NUM |-> trace_num,
                        TRACE_SEQ |-> GetInt(td.TRACE_SEQUENCE_LINE, trace_num),
                        SOURCE_X |-> x_coord,
                        SOURCE_Y |-> y_coord,
                        COORD_UNIT |-> coord_units,
                        SCALAR |-> source_group_scalar,
                        OFFSET |-> GetInt(td.offset, 0),
                        ELEVATION |-> GetInt(td.SourceSurfaceElevation, 0),
                        DATETIME |-> OrEmpty(FormatDatetimeFromTrace(td))]
            IN SaveAppend([acc1 EXCEPT !.coord_units = coord_units,
                                       !.source_group_scalar = source_group_scalar],
                          rec, <<x_coord, y_coord>>)

RECURSIVE SaveLoop(_, _, _)
SaveLoop(th, i, acc) ==
    IF i > Len(th) THEN acc ELSE SaveLoop(th, i + 1, SaveTraceStep(acc, th[i], i))

\* _save_shapefile_for_file; wp / wl: whether the writer's to_file succeeds
\* for the point file / the line file (a failure is swallowed by `except: pass`)
SaveShapefileForFile(th, wp, wl) ==
    LET acc == SaveLoop(th, 1, [cdp_data |-> <<>>, line_coords |-> <<>>, source_xy |-> <<>>,
                                coord_units |-> 2, source_group_scalar |-> 1])
        hasLine == Len(acc.line_coords) > 1
        line_attrs == [geometry |-> acc.line_coords,
                       START_DT |-> OrEmpty(FormatDatetimeFromTrace(th[1])),
                       END_DT |-> OrEmpty(FormatDatetimeFromTrace(th[Len(th)]))]
    IN IF acc.cdp_data = <<>>
       THEN [cdp_data |-> <<>>, line_coords |-> <<>>, source_xy |-> acc.source_xy,
             point_path |-> "none", line_path |-> "none", line_data |-> <<>>,
             written |-> {}, raised |-> ""]
       ELSE [cdp_data |-> acc.cdp_data, line_coords |-> acc.line_coords,
             source_xy |-> acc.source_xy,
             point_path |-> "points",
             line_path |-> IF hasLine THEN "line" ELSE "none",
             line_data |-> IF hasLine THEN <<line_attrs>> ELSE <<>>,
             written |-> (IF wp THEN {"points"} ELSE {})
                         \cup (IF hasLine /\ wl THEN {"line"} ELSE {}),
             raised |-> ""]

---------------------------------------------------------------------------
\* Trace loop of _create_cdp_shapefile (interactive export)

\* lines 2969-2981
CdpSelectPair(td) ==
    LET p1 == <<td.SourceX, td.SourceY>>
        p2 == IF IsNone(p1[1]) \/ IsNone(p1[2]) THEN <<td.GroupX, td.GroupY>> ELSE p1
        p3 == IF IsNone(p2[1]) \/ IsNone(p2[2]) THEN <<td.CDP_X, td.CDP_Y>> ELSE p2
    IN p3

\* lines 2995-3005
CdpApplyScalar(c, s) ==
    IF s > 0 THEN FMul(FloatOf(c), s)
    ELSE IF s < 0 THEN FDiv(FloatOf(c), Abs(s))
    ELSE FloatOf(c)

\* lines 3007-3022
CdpConvertUnits(f, coord_units) ==
    IF coord_units = 1 THEN f
    ELSE IF coord_units = 2 THEN FDiv(f, ArcSecondsPerDegree)
    ELSE IF coord_units = 3 THEN f
    ELSE IF coord_units = 4 THEN f
    ELSE f

\* one iteration of the loop at line 2966; i is the enumerate() counter
CdpTraceStep(acc, td, i, trace_num) ==
    LET xy == CdpSelectPair(td)
        acc1 == [acc EXCEPT !.source_xy = Append(@, xy)]
    IN IF IsNone(xy[1]) \/ IsNone(xy[2]) THEN acc1
       ELSE IF NearZero(xy[1]) /\ NearZero(xy[2]) THEN acc1
       ELSE LET coord_units == GetInt(td.CoordinateUnits, 2)
                source_group_scalar == GetInt(td.SourceGroupScalar, 1)
                x_coord == CdpConvertUnits(CdpApplyScalar(xy[1], source_group_scalar), coord_units)
                y_coord == CdpConvertUnits(CdpApplyScalar(xy[2], source_group_scalar), coord_units)
                rec == [geometry |-> <<x_coord, y_coord>>,
                        CDP_NUM |-> GetInt(td.CDP, i + 1),
                        TRACE_NUM |-> trace_num,
                        TRACE_SEQ |-> GetInt(td.TRACE_SEQUENCE_LINE, i + 1),
                        SOURCE_X |-> x_coord,
                        SOURCE_Y |-> y_coord,
                        COORD_UNIT |-> coord_units,
                        SCALAR |-> source_group_scalar,
                        OFFSET |-> GetInt(td.offset, 0),
                        ELEVATION |-> GetInt(td.ReceiverGroupElevation, 0),
                        DATETIME |-> OrEmpty(FormatDatetimeFromTrace(td))]
            IN [acc1 EXCEPT !.coord_units = coord_units,
                            !.source_group_scalar = source_group_scalar,
                            !.cdp_data = Append(@, rec),
                            !.line_coords = Append(@, <<x_coord, y_coord>>)]

RECURSIVE CdpLoop(_, _, _)
CdpLoop(th, k, acc) ==
    IF k > Len(th) THEN acc ELSE CdpLoop(th, k + 1, CdpTraceStep(acc, th[k], k - 1, k))

ZeroCoordProbe == 5
\* lines 3058-3066: do the first traces carry (0, 0) source coordinates
HasZeroCoords(th) ==
    \E k \in 1..Len(th) :
        /\ k <= ZeroCoordProbe
        /\ ~IsNone(th[k].SourceX) /\ ~IsNone(th[k].SourceY)
        /\ NearZero(th[k].SourceX) /\ NearZero(th[k].SourceY)

\* _create_cdp_shapefile; wp / wl: whether to_file succeeds for the point
\* file / the line file (a failure other than NameError leaves the function)
CreateCdpShapefile(th, wp, wl) ==
    LET acc == CdpLoop(th, 1, [cdp_data |-> <<>>, line_coords |-> <<>>, source_xy |-> <<>>,
                               coord_units |-> 2, source_group_scalar |-> 1])
        n == Len(acc.cdp_data)
        hasLine == Len(acc.line_coords) > 1
        line_rec == [geometry |-> acc.line_coords,
                     NUM_POINTS |-> Len(acc.line_coords),
                     START_TRACE |-> acc.cdp_data[1].TRACE_NUM,
                     END_TRACE |-> acc.cdp_data[n].TRACE_NUM,
                     COORD_UNIT |-> acc.coord_units,
                     SCALAR |-> acc.source_group_scalar,
                     START_DT |-> OrEmpty(FormatDatetimeFromTrace(th[1])),
                     END_DT |-> OrEmpty(FormatDatetimeFromTrace(th[Len(th)]))]
        base == [cdp_data |-> acc.cdp_data, line_coords |-> acc.line_coords,
                 source_xy |-> acc.source_xy,
                 point_path |-> "none", line_path |-> "none", line_data |-> <<>>,
                 written |-> {}, raised |-> ""]
    IN IF acc.cdp_data = <<>>
       THEN [base EXCEPT !.raised = IF HasZeroCoords(th)
                                    THEN "ValueError: coordinates uninitialized"
                                    ELSE "ValueError: no valid coordinate data"]
       ELSE IF ~wp THEN [base EXCEPT !.raised = "write failed"]
       ELSE IF hasLine /\ ~wl
            THEN [base EXCEPT !.line_data = <<line_rec>>, !.written = {"points"},
                              !.raised = "write failed"]
       ELSE [base EXCEPT !.point_path = "points", !.line_path = "line",
                         !.line_data = IF hasLine THEN <<line_rec>> ELSE <<>>,
                         !.written = {"points"} \cup (IF hasLine THEN {"line"} ELSE {})]

---------------------------------------------------------------------------
\* Header rows the export is run on

BaseHeader ==
    [SourceX |-> Cell(720), SourceY |-> Cell(-360),
     GroupX |-> Cell(1800), GroupY |-> Cell(900),
     CDP_X |-> Cell(-1440), CDP_Y |-> Cell(1080),
     CoordinateUnits |-> Cell(1), SourceGroupScalar |-> Cell(-10),
     CDP |-> Cell(101), TRACE_SEQUENCE_LINE |-> Cell(1), offset |-> Cell(0),
     SourceSurfaceElevation |-> Cell(0), ReceiverGroupElevation |-> Cell(0),
     YearDataRecorded |-> Cell(24), DayOfYear |-> Cell(100),
     HourOfDay |-> Cell(7), MinuteOfHour |-> Cell(30), SecondOfMinute |-> Cell(15)]

\* rows that differ in scalar and unit code
ScaleHeaders ==
    {[BaseHeader EXCEPT !.SourceGroupScalar = Cell(s), !.CoordinateUnits = Cell(u)] :
        s \in {-10, 0, 10}, u \in {1, 2}}
    \cup {[BaseHeader EXCEPT !.CoordinateUnits = Cell(u)] : u \in {3, 4, 5}}

\* <<SourceX, SourceY, GroupX, GroupY, CDP_X, CDP_Y>>
CoordCases ==
    {<<None, None, Cell(1800), Cell(900), Cell(-1440), Cell(1080)>>,
     <<None, None, None, None, Cell(-1440), Cell(1080)>>,
     <<None, None, None, None, None, None>>,
     <<Cell(0), Cell(0), Cell(1800), Cell(900), Cell(-1440), Cell(1080)>>,
     <<NaN, NaN, Cell(1800), Cell(900), Cell(-1440), Cell(1080)>>,
     <<Cell(720), None, Cell(1800), Cell(900), Cell(-1440), Cell(1080)>>,
     <<Cell(0), Cell(-360), Cell(1800), Cell(900), Cell(-1440), Cell(1080)>>,
     <<NaN, NaN, NaN, NaN, NaN, NaN>>,
     <<None, None, Cell(0), Cell(0), Cell(-1440), Cell(1080)>>}

\* rows that differ in which coordinate fields are there
SelectHeaders ==
    {[BaseHeader EXCEPT !.SourceX = c[1], !.SourceY = c[2], !.GroupX = c[3],
                        !.GroupY = c[4], !.CDP_X = c[5], !.CDP_Y = c[6]] : c \in CoordCases}

NavHeaders == ScaleHeaders \cup SelectHeaders

\* rows that differ in survival and in recording time
StampHeaders ==
    {[BaseHeader EXCEPT !.SourceX = Cell(x), !.SourceY = Cell(0 - x),
                        !.YearDataRecorded = t[1], !.DayOfYear = t[2],
                        !.SecondOfMinute = t[3]] :
        x \in {0, 720},
        t \in {<<NaN, NaN, NaN>>, <<Cell(24), Cell(100), Cell(15)>>, <<Cell(75), Cell(200), NaN>>}}

\* rows whose source and receiver-group elevations differ
ElevationHeaders ==
    {[BaseHeader EXCEPT !.SourceSurfaceElevation = Cell(e[1]),
                        !.ReceiverGroupElevation = Cell(e[2])] :
        e \in {<<12, 12>>, <<12, 9>>}}

Tables(H) == UNION {[1..n -> H] : n \in 1..MaxTraces}

NoRow == [BaseHeader EXCEPT !.SourceX = None, !.SourceY = None]

NavIdle ==
    /\ trace_headers = <<>>
    /\ export_path = "none"
    /\ cdp_data = <<>> /\ line_coords = <<>> /\ source_xy = <<>>
    /\ point_path = "none" /\ line_path = "none" /\ line_data = <<>>
    /\ written = {} /\ raised = ""

TimeIdle == trace_data = NoRow /\ dt_result = <<>>

\* no completion message was shown yet
NoMessage == [shown |-> FALSE, processed |-> 0, errors |-> 0, combined |-> <<>>]

BatchIdle ==
    /\ filenames = <<>> /\ pc = "idle" /\ file_index = 0 /\ wasCanceled = FALSE
    /\ processed_count = 0 /\ error_count = 0
    /\ all_point_shapefiles = <<>> /\ all_line_shapefiles = <<>>
    /\ load_log = <<>> /\ status_log = <<>> /\ combined = "none"
    /\ disk = {} /\ combined_points = <<>> /\ combined_lines = <<>>
    /\ completion_message = NoMessage

NoRender == [path |-> "none"]

\* the plot controls as create_headers_panel builds them (657, 668, 683, 704,
\* 714), the percentile at its default (694); no file loaded (522)
AmpIdle ==
    /\ current_data = <<>> /\ current_file_info = [n_traces |-> 0, twt |-> <<>>]
    /\ clip_enabled = TRUE /\ std_dev_enabled = FALSE
    /\ clip_percentile = 99 /\ std_dev_value = 20
    /\ depth_mode = FALSE /\ velocity = 1500
    /\ shown = NoRender /\ exported = NoRender /\ both_plotted = FALSE

NoCall == [raised |-> FALSE, clipped |-> FALSE, render |-> NoRender]

\* the description pane before any click
NoField == [widget |-> "none", word |-> "", pane |-> [via |-> "none"]]

HeaderIdle ==
    /\ current_bin_headers = <<>> /\ headers_text = <<>> /\ saved_text = <<>>
    /\ field_description = NoField

NoChoice == [utm |-> FALSE, crs |-> "unset", x |-> 0, y |-> 0]

UtmIdle == utm_x = 0 /\ utm_y = 0 /\ utm_units = 0 /\ utm_result = NoChoice

\* the selection after construction (527); the field is empty and shows its
\* placeholder (796-799)
SelIdle == current_trace_number = 1 /\ trace_number_input = <<>>

UiIdle == range_result = NoCall /\ HeaderIdle /\ UtmIdle /\ SelIdle

\* a file's traces are loaded (on_file_loaded / _load_segy_file_data); nothing exported yet
InitNav ==
    /\ trace_headers \in Tables(NavHeaders) \cup Tables(StampHeaders)
                            \cup Tables(ElevationHeaders)
    /\ export_path = "none"
    /\ cdp_data = <<>> /\ line_coords = <<>> /\ source_xy = <<>>
    /\ point_path = "none" /\ line_path = "none" /\ line_data = <<>>
    /\ written = {} /\ raised = ""
    /\ TimeIdle /\ BatchIdle /\ AmpIdle /\ UiIdle

SetExport(path, r) ==
    /\ export_path' = path
    /\ cdp_data' = r.cdp_data
    /\ line_coords' = r.line_coords
    /\ source_xy' = r.source_xy
    /\ point_path' = r.point_path
    /\ line_path' = r.line_path
    /\ line_data' = r.line_data
    /\ written' = r.written
    /\ raised' = r.raised
    /\ UNCHANGED <<trace_headers, timeVars, batchVars, ampVars, uiVars>>

\* batch_process line 2421 on the loaded table
CallSaveShapefileForFile ==
    /\ export_path = "none"
    /\ \E wp \in BOOLEAN, wl \in BOOLEAN :
          SetExport("batch", SaveShapefileForFile(trace_headers, wp, wl))

\* save_shapefile line 2296 on current_headers
CallCreateCdpShapefile ==
    /\ export_path = "none"
    /\ \E wp \in BOOLEAN, wl \in BOOLEAN :
          SetExport("interactive", CreateCdpShapefile(trace_headers, wp, wl))

NextNav == CallSaveShapefileForFile \/ CallCreateCdpShapefile

SpecNav == InitNav /\ [][NextNav]_vars

---------------------------------------------------------------------------
\* Properties of the navigation export (SpecNav)

Exported == export_path # "none"

\* the header row a point record came from
RowOf(r) == trace_headers[r.TRACE_NUM]

\* f is the raw cell c under scalar s, then divided by u
ScaledAs(f, c, s, u) ==
    IF c.k = "nan" THEN f.k = "nan"
    ELSE /\ f.k = "num"
         /\ s > 0 => f.n * u = c.v * s * f.d
         /\ s < 0 => f.n * u * (0 - s) = c.v * f.d
         /\ s = 0 => f.n * u = c.v * f.d

\* the divisor the export applied to a record, read off its COORD_UNIT attribute
AppliedDivisor(r) == IF r.COORD_UNIT = 2 THEN 3600 ELSE 1

\* C1: in the batch and in the interactive export, every point record's x and y
\* are the selected raw values multiplied by the source-group scalar when it is
\* positive, divided by its magnitude when it is negative, and left as they
\* are when it is zero (before the unit conversion the record reports).
C1_ScalarApplied ==
    Exported =>
        \A k \in 1..Len(cdp_data) :
            LET r == cdp_data[k]
                s == GetInt(RowOf(r).SourceGroupScalar, 1)
                raw == source_xy[r.TRACE_NUM]
            IN /\ r.SCALAR = s
               /\ ScaledAs(r.geometry[1], raw[1], s, AppliedDivisor(r))
               /\ ScaledAs(r.geometry[2], raw[2], s, AppliedDivisor(r))

\* a batch export of three traces with scalars -10, 0 and 10, the first giving x = raw_x / 10
C1_Witness ==
    /\ export_path = "batch"
    /\ Len(cdp_data) = 3
    /\ cdp_data[1].SCALAR = -10 /\ cdp_data[2].SCALAR = 0 /\ cdp_data[3].SCALAR = 10
    /\ cdp_data[1].COORD_UNIT = 1
    /\ source_xy[1][1] = Cell(720)
    /\ FEq(cdp_data[1].geometry[1], Float(72, 1))
    /\ FEq(cdp_data[3].geometry[1], Float(7200, 1))

\* a cell that holds a value
Present(c) == ~Missing(c)

PairsOf(td) == <<<<td.SourceX, td.SourceY>>, <<td.GroupX, td.GroupY>>, <<td.CDP_X, td.CDP_Y>>>>

HasPresentPair(td) == \E j \in 1..3 : Present(PairsOf(td)[j][1]) /\ Present(PairsOf(td)[j][2])

\* the first of Source, Group, CDP in which both values are present
FirstPresentPair(td) ==
    LET j == CHOOSE j \in 1..3 :
                 /\ Present(PairsOf(td)[j][1]) /\ Present(PairsOf(td)[j][2])
                 /\ \A h \in 1..(j - 1) : ~(Present(PairsOf(td)[h][1]) /\ Present(PairsOf(td)[h][2]))
    IN PairsOf(td)[j]

\* no coordinate field of the row holds a value
RawAbsent(td) == \A j \in 1..3 : Missing(PairsOf(td)[j][1]) /\ Missing(PairsOf(td)[j][2])

\* the row's raw pair is (0, 0) within epsilon
RawZero(td) ==
    /\ HasPresentPair(td)
    /\ NearZero(FirstPresentPair(td)[1]) /\ NearZero(FirstPresentPair(td)[2])

C3_EmptyGeometryNoError ==
    (/\ Exported
     /\ \A t \in 1..Len(trace_headers) :
            \/ IsNone(source_xy[t][1]) \/ IsNone(source_xy[t][2])
            \/ NearZero(source_xy[t][1]) /\ NearZero(source_xy[t][2]))
    => (cdp_data = <<>> /\ line_data = <<>> /\ raised = "")

C5_OwnUnitCode ==
    Exported =>
        \A k \in 1..Len(cdp_data) :
            LET r == cdp_data[k]
                u == GetInt(RowOf(r).CoordinateUnits, 2)
                s == GetInt(RowOf(r).SourceGroupScalar, 1)
                raw == source_xy[r.TRACE_NUM]
                div == IF u = 2 THEN 3600 ELSE 1
            IN /\ r.COORD_UNIT = u
               /\ ScaledAs(r.geometry[1], raw[1], s, div)
               /\ ScaledAs(r.geometry[2], raw[2], s, div)

\* C6: the polyline's start and end timestamps are those of the first and of
\* the last surviving point record.
C6_LineStampsOfSurvivors ==
    line_data # <<>> =>
        /\ line_data[1].START_DT = cdp_data[1].DATETIME
        /\ line_data[1].END_DT = cdp_data[Len(cdp_data)].DATETIME

\* C7: the polyline's vertices are the coordinates of the point records, one
\* per record, in the records' order, which is ascending trace order.
C7_VerticesArePoints ==
    Exported =>
        /\ Len(line_coords) = Len(cdp_data)
        /\ \A k \in 1..Len(cdp_data) : line_coords[k] = cdp_data[k].geometry
        /\ \A j, k \in 1..Len(cdp_data) : j < k => cdp_data[j].TRACE_NUM < cdp_data[k].TRACE_NUM
        /\ \A k \in 1..Len(cdp_data) : cdp_data[k].TRACE_NUM \in 1..Len(trace_headers)
        /\ line_data # <<>> =>
              /\ Len(line_data[1].geometry) = Len(cdp_data)
              /\ \A k \in 1..Len(cdp_data) : line_data[1].geometry[k] = cdp_data[k].geometry

\* a written polyline of two different vertices from a table whose middle trace was skipped
C7_Witness ==
    /\ Exported
    /\ Len(trace_headers) = 3
    /\ "line" \in written
    /\ Len(line_data[1].geometry) = 2
    /\ cdp_data[1].TRACE_NUM = 1 /\ cdp_data[2].TRACE_NUM = 3
    /\ line_data[1].geometry[1] # line_data[1].geometry[2]

---------------------------------------------------------------------------
\* _format_datetime_from_trace on single rows (SpecTime)

TimeRows ==
    {[BaseHeader EXCEPT !.YearDataRecorded = y, !.DayOfYear = d, !.HourOfDay = t[1],
                        !.MinuteOfHour = t[2], !.SecondOfMinute = t[3]] :
        y \in {None, NaN, Cell(0), Cell(49), Cell(50), Cell(99), Cell(100), Cell(1999)},
        d \in {None, NaN, Cell(1), Cell(365)},
        t \in {NaN, Cell(7)} \X {NaN, Cell(30)} \X {NaN, Cell(15)}}

InitTime ==
    /\ trace_data \in TimeRows
    /\ dt_result = <<>>
    /\ NavIdle /\ BatchIdle /\ AmpIdle /\ UiIdle

CallFormatDatetime ==
    /\ dt_result = <<>>
    /\ dt_result' = <<FormatDatetimeFromTrace(trace_data)>>
    /\ UNCHANGED <<trace_data, navVars, batchVars, ampVars, uiVars>>

NextTime == CallFormatDatetime

SpecTime == InitTime /\ [][NextTime]_vars

\* C8: the timestamp of a row is no value at all when its year or its
\* day-of-year is absent; otherwise it carries the day and the year
\* 2000 + year for year < 50, 1900 + year for 50 <= year < 100, and the year
\* itself from 100 on.
C8_YearRuleAndOmission ==
    dt_result # <<>> =>
        LET r == dt_result[1]
            y == trace_data.YearDataRecorded
            d == trace_data.DayOfYear
        IN /\ (Missing(y) \/ Missing(d)) => r = NoDatetime
           /\ (Present(y) /\ Present(d)) =>
                 /\ r.kind \in {"date", "datetime"}
                 /\ r.day = d.v
                 /\ y.v < 50 => r.year = 2000 + y.v
                 /\ (50 <= y.v /\ y.v < 100) => r.year = 1900 + y.v
                 /\ y.v >= 100 => r.year = y.v

\* year 50 on day 365 was formatted as 1950-365
C8_Witness ==
    /\ dt_result # <<>>
    /\ trace_data.YearDataRecorded = Cell(50)
    /\ trace_data.DayOfYear = Cell(365)
    /\ dt_result[1].year = 1950 /\ dt_result[1].day = 365

---------------------------------------------------------------------------
\* batch_process

ZeroRow == [BaseHeader EXCEPT !.SourceX = Cell(0), !.SourceY = Cell(0)]
OtherRow == [BaseHeader EXCEPT !.SourceX = Cell(900), !.SourceY = Cell(-180)]

\* a file name is a sequence of tokens, the extension last
Stem(path) == SubSeq(path, 1, Len(path) - 1)

GoodFile ==
    [filename |-> <<"good", ".sgy">>, load |-> "ok", plot |-> "ok", header_info |-> "ok",
     trace_headers |-> <<BaseHeader, ZeroRow, OtherRow>>, wp |-> TRUE, wl |-> TRUE]

\* the files a batch can meet: unreadable; complete; one surviving trace; no
\* surviving trace; plot step raising; header-info step raising; point
\* write failing; line write failing; a second file with the base name of
\* the complete one; a file whose base name ends like a point shapefile
BatchFiles ==
    {[GoodFile EXCEPT !.filename = <<"unreadable", ".sgy">>, !.load = "fail"],
     GoodFile,
     [GoodFile EXCEPT !.filename = <<"single", ".sgy">>, !.trace_headers = <<ZeroRow, OtherRow>>],
     [GoodFile EXCEPT !.filename = <<"nonav", ".sgy">>, !.trace_headers = <<ZeroRow, ZeroRow>>],
     [GoodFile EXCEPT !.filename = <<"noplot", ".sgy">>, !.plot = "raise"],
     [GoodFile EXCEPT !.filename = <<"notxt", ".sgy">>, !.header_info = "raise"],
     [GoodFile EXCEPT !.filename = <<"nowrite", ".sgy">>, !.wp = FALSE],
     [GoodFile EXCEPT !.filename = <<"noline", ".sgy">>, !.wl = FALSE],
     [GoodFile EXCEPT !.filename = <<"good", ".segy">>, !.trace_headers = <<OtherRow, BaseHeader>>],
     [GoodFile EXCEPT !.filename = <<"odd", "_source_points", "_points", ".sgy">>]}

\* the dialog returns distinct files
FileLists ==
    {l \in UNION {[1..n -> BatchFiles] : n \in 1..MaxFiles} :
        \A i, j \in DOMAIN l : i # j => l[i].filename # l[j].filename}

\* after the two dialogs, lines 2391-2394
InitBatch ==
    /\ filenames \in FileLists
    /\ pc = "check"
    /\ file_index = 0
    /\ wasCanceled = FALSE
    /\ processed_count = 0 /\ error_count = 0
    /\ all_point_shapefiles = <<>> /\ all_line_shapefiles = <<>>
    /\ load_log = <<>> /\ status_log = <<>> /\ combined = "none"
    /\ disk = {} /\ combined_points = <<>> /\ combined_lines = <<>>
    /\ completion_message = NoMessage
    /\ NavIdle /\ TimeIdle /\ AmpIdle /\ UiIdle

\* lines 2413, 2416 and 2428
PlotPath(f) == Stem(f.filename) \o <<"_plot", ".png">>
TxtPath(f) == Stem(f.filename) \o <<".txt">>

\* lines 2413, 2420 and 2831 / 2867
ShapePath(f, kind) ==
    Stem(f.filename) \o <<"_source_points">>
                     \o <<IF kind = "points" THEN "_points" ELSE "_line", ".shp">>

\* a written file that holds no records (image, text)
Image(path) == [path |-> path, rows |-> <<>>]

ProcessOneFile_countBoth(f) ==
    IF f.load = "fail"
    THEN [processed |-> 0, errors |-> 1, points |-> <<>>, lines |-> <<>>,
          message |-> FALSE, outputs |-> {}]
    ELSE IF f.plot = "raise"
    THEN [processed |-> 0, errors |-> 1, points |-> <<>>, lines |-> <<>>,
          message |-> TRUE, outputs |-> {}]
    ELSE LET r == SaveShapefileForFile(f.trace_headers, f.wp, f.wl)
             pts == IF r.point_path # "none" THEN <<ShapePath(f, "points")>> ELSE <<>>
             lns == IF r.line_path # "none" THEN <<ShapePath(f, "line")>> ELSE <<>>
             shp == {[path |-> ShapePath(f, k),
                      rows |-> IF k = "points" THEN r.cdp_data ELSE r.line_data] :
                     k \in r.written}
         IN IF f.header_info = "raise"
            THEN [processed |-> 1, errors |-> 1, points |-> pts, lines |-> lns,
                  message |-> TRUE, outputs |-> {Image(PlotPath(f))} \cup shp]
            ELSE [processed |-> 1, errors |-> 0, points |-> pts, lines |-> lns,
                  message |-> FALSE,
                  outputs |-> {Image(PlotPath(f)), Image(TxtPath(f))} \cup shp]

\* the try block of the loop body, lines 2405-2436: what one file adds to the
\* counters, to the two shapefile lists, to the status bar and to the output
\* directory
ProcessOneFile(f) ==
    IF f.load = "fail"
    THEN [processed |-> 0, errors |-> 1, points |-> <<>>, lines |-> <<>>,
          message |-> FALSE, outputs |-> {}]
    ELSE IF f.plot = "raise"
    THEN [processed |-> 0, errors |-> 1, points |-> <<>>, lines |-> <<>>,
          message |-> TRUE, outputs |-> {}]
    ELSE LET r == SaveShapefileForFile(f.trace_headers, f.wp, f.wl)
             pts == IF r.point_path # "none" THEN <<ShapePath(f, "points")>> ELSE <<>>
             lns == IF r.line_path # "none" THEN <<ShapePath(f, "line")>> ELSE <<>>
             shp == {[path |-> ShapePath(f, k),
                      rows |-> IF k = "points" THEN r.cdp_data ELSE r.line_data] :
                     k \in r.written}
         IN IF f.header_info = "raise"
            THEN [processed |-> 0, errors |-> 1, points |-> pts, lines |-> lns,
                  message |-> TRUE, outputs |-> {Image(PlotPath(f))} \cup shp]
            ELSE [processed |-> 1, errors |-> 0, points |-> pts, lines |-> lns,
                  message |-> FALSE,
                  outputs |-> {Image(PlotPath(f)), Image(TxtPath(f))} \cup shp]

\* a write replaces the file of the same path
Store(dsk, outputs, from) ==
    {e \in dsk : \A o \in outputs : e.path # o.path}
        \cup {[path |-> o.path, from |-> from, rows |-> o.rows] : o \in outputs}

AfterFile_breakOnError(o) == IF o.errors > 0 THEN "exit" ELSE "check"

\* where control goes when the body is left: `continue` (2411, 2436) and the
\* normal end of the body all return to the loop head
AfterFile(o) == "check"

LoopExit_ignoreCancel(exhausted, canceled) == exhausted

\* lines 2397-2399: the for loop ends with the list, `break` leaves it when the
\* dialog reports a cancel
LoopExit(exhausted, canceled) == exhausted \/ canceled

\* lines 2397-2403: the loop head; the loop is left when the list is
\* exhausted or the dialog was cancelled, otherwise events are pumped
LoopHead ==
    /\ pc = "check"
    /\ pc' = IF LoopExit(file_index >= Len(filenames), wasCanceled) THEN "exit" ELSE "events"
    /\ UNCHANGED <<filenames, file_index, wasCanceled, processed_count, error_count,
                   all_point_shapefiles, all_line_shapefiles, load_log, status_log,
                   combined, disk, combined_points, combined_lines, completion_message,
                   navVars, timeVars, ampVars, uiVars>>

\* the Cancel button is pressed while QApplication.processEvents() runs (2403)
CancelClicked ==
    /\ pc = "events"
    /\ ~wasCanceled
    /\ wasCanceled' = TRUE
    /\ UNCHANGED <<filenames, pc, file_index, processed_count, error_count,
                   all_point_shapefiles, all_line_shapefiles, load_log, status_log,
                   combined, disk, combined_points, combined_lines, completion_message,
                   navVars, timeVars, ampVars, uiVars>>

\* lines 2405-2436 for filenames[i]
LoopBody ==
    /\ pc = "events"
    /\ \E o \in {ProcessOneFile(filenames[file_index + 1])} :
          /\ load_log' = Append(load_log, file_index + 1)
          /\ processed_count' = processed_count + o.processed
          /\ error_count' = error_count + o.errors
          /\ all_point_shapefiles' = all_point_shapefiles \o o.points
          /\ all_line_shapefiles' = all_line_shapefiles \o o.lines
          /\ status_log' = IF o.message THEN Append(status_log, file_index + 1) ELSE status_log
          /\ disk' = Store(disk, o.outputs, file_index + 1)
          /\ file_index' = file_index + 1
          /\ pc' = AfterFile(o)
    /\ UNCHANGED <<filenames, wasCanceled, combined, combined_points, combined_lines,
                   completion_message, navVars, timeVars, ampVars, uiVars>>

\* str.replace(old, ''): every occurrence of old, scanning from the left, is removed
RECURSIVE Remove(_, _)
Remove(s, old) ==
    IF Len(s) < Len(old) THEN s
    ELSE IF SubSeq(s, 1, Len(old)) = old
         THEN Remove(SubSeq(s, Len(old) + 1, Len(s)), old)
         ELSE <<Head(s)>> \o Remove(Tail(s), old)

SourceFileTag_keep(path, kind) == Stem(path)

\* lines 2919 and 2936: the SOURCE_FILE value of the records read from path
SourceFileTag(path, kind) ==
    Remove(Stem(path), <<"_source_points", IF kind = "points" THEN "_points" ELSE "_line">>)

\* lines 2916-2921 and 2934-2938: the frame read from one path, each record
\* tagged; nothing when the path does not exist
ReadOne(e, kind) ==
    [k \in 1..Len(e.rows) |->
        [SOURCE_FILE |-> SourceFileTag(e.path, kind), from |-> e.from, rec |-> e.rows[k]]]

\* lines 2915-2924 and 2933-2941: the frames of the paths that exist,
\* concatenated in list order
RECURSIVE ReadTagged(_, _, _, _)
ReadTagged(paths, i, dsk, kind) ==
    IF i > Len(paths) THEN <<>>
    ELSE IF \E e \in dsk : e.path = paths[i]
         THEN ReadOne(CHOOSE e \in dsk : e.path = paths[i], kind)
                  \o ReadTagged(paths, i + 1, dsk, kind)
         ELSE ReadTagged(paths, i + 1, dsk, kind)

\* _combine_shapefiles: cp and cl tell whether the two to_file calls succeed;
\* a failing point write raises before the lines are read
CombineShapefiles(point_paths, line_paths, dsk, cp, cl) ==
    LET pts == ReadTagged(point_paths, 1, dsk, "points")
        lns == ReadTagged(line_paths, 1, dsk, "line")
        pfail == pts # <<>> /\ ~cp
        lfail == lns # <<>> /\ ~cl
    IN [points |-> IF pfail THEN <<>> ELSE pts,
        lines |-> IF pfail \/ lfail THEN <<>> ELSE lns,
        raised |-> pfail \/ lfail]

\* lines 2445-2446: the names of the two combined shapefiles
CombinedNames == <<"SEGY_Combined_Nav_points.shp", "SEGY_Combined_Nav_line.shp">>

\* lines 2453-2458: the counts, and the names of the combined shapefiles
\* when both path variables are set; paths is <<>> while they are None
CompletionMessage(processed, errors, paths) ==
    [shown |-> TRUE, processed |-> processed, errors |-> errors, combined |-> paths]

MergeWanted_any(n) == n > 0

\* line 2443
MergeWanted(n) == n > 1

\* lines 2438-2459: merge when more than one point shapefile was collected
\* (the merge itself may raise), then the completion message
Finish ==
    /\ pc = "exit"
    /\ \/ /\ MergeWanted(Len(all_point_shapefiles))
          /\ \E cp, cl \in BOOLEAN :
                \E c \in {CombineShapefiles(all_point_shapefiles, all_line_shapefiles,
                                            disk, cp, cl)} :
                    /\ combined_points' = c.points
                    /\ combined_lines' = c.lines
                    /\ combined' = IF c.raised THEN "failed" ELSE "written"
                    /\ completion_message' =
                          CompletionMessage(processed_count, error_count, CombinedNames)
       \/ /\ ~MergeWanted(Len(all_point_shapefiles))
          /\ combined' = "none"
          /\ completion_message' =
                CompletionMessage(processed_count, error_count, <<>>)
          /\ UNCHANGED <<combined_points, combined_lines>>
    /\ pc' = "done"
    /\ UNCHANGED <<filenames, file_index, wasCanceled, processed_count, error_count,
                   all_point_shapefiles, all_line_shapefiles, load_log, status_log,
                   disk, navVars, timeVars, ampVars, uiVars>>

NextBatch == LoopHead \/ CancelClicked \/ LoopBody \/ Finish

SpecBatch == InitBatch /\ [][NextBatch]_vars

UpTo(n) == [k \in 1..n |-> k]

\* C9: the files are loaded one at a time in input order, each once, and a
\* batch that was not cancelled has attempted every file of the list, whatever
\* failed on the way.
C9_EveryFileAttemptedInOrder ==
    /\ load_log = UpTo(file_index)
    /\ (pc = "done" /\ ~wasCanceled) => load_log = UpTo(Len(filenames))

\* a finished, uncancelled batch of three files whose first file could not be
\* loaded and whose second raised in an output step
C9_Witness ==
    /\ pc = "done" /\ ~wasCanceled
    /\ Len(filenames) = 3
    /\ filenames[1].load = "fail"
    /\ filenames[2].header_info = "raise"
    /\ load_log = <<1, 2, 3>>

CountsMatchAttempts ==
    /\ processed_count + error_count = file_index
    /\ file_index = Len(load_log)
    /\ (pc = "done" /\ ~wasCanceled) => processed_count + error_count = Len(filenames)
    /\ (/\ pc = "done" /\ ~wasCanceled
        /\ Len(filenames) = 3
        /\ filenames[2].load = "fail"
        /\ \A k \in {1, 3} : /\ filenames[k].load = "ok" /\ filenames[k].plot = "ok"
                             /\ filenames[k].header_info = "ok")
       => (processed_count = 2 /\ error_count = 1)

OneCounterPerFile ==
    file_index' # file_index =>
        /\ file_index' = file_index + 1
        /\ \/ processed_count' = processed_count + 1 /\ error_count' = error_count
           \/ processed_count' = processed_count /\ error_count' = error_count + 1

\* C10: processed_count + error_count is the number of files attempted so
\* far, every attempted file adds one to exactly one of the two counters, and
\* an uncancelled batch ends with the sum equal to the length of the list
\* (three files with a decode failure on the second: 2 processed, 1 error).
C10_CountersPartitionAttempts == []CountsMatchAttempts /\ [][OneCounterPerFile]_vars

\* the batch of the example has finished with 2 processed and 1 error
C10_Witness ==
    /\ pc = "done" /\ ~wasCanceled
    /\ Len(filenames) = 3
    /\ filenames[2].load = "fail"
    /\ processed_count = 2 /\ error_count = 1

\* the file was read, and its export kept no trace (2817-2818)
EmptyGeometry(f) ==
    /\ f.load = "ok"
    /\ SaveShapefileForFile(f.trace_headers, f.wp, f.wl).cdp_data = <<>>

EmptyGeometryIsError ==
    (file_index' = file_index + 1 /\ EmptyGeometry(filenames[file_index + 1])) =>
        /\ error_count' = error_count + 1
        /\ processed_count' = processed_count

\* C11: a file that loads but whose export keeps no trace adds one to
\* error_count and nothing to processed_count.
C11_EmptyGeometryCountsAsError == [][EmptyGeometryIsError]_vars

\* the loop head has seen the cancel and the loop was left
CancelObserved == wasCanceled /\ pc \in {"exit", "done"}

CancelState ==
    CancelObserved =>
        /\ processed_count + error_count = file_index
        /\ load_log = UpTo(file_index)
        /\ \A e \in disk : e.from <= file_index

CancelStep ==
    /\ (pc = "events" /\ wasCanceled) => file_index' = file_index + 1
    /\ (pc = "check" /\ wasCanceled) => pc' = "exit"
    /\ ((pc = "check" /\ wasCanceled) \/ CancelObserved) =>
           /\ load_log' = load_log /\ disk' = disk /\ file_index' = file_index
           /\ processed_count' = processed_count /\ error_count' = error_count

\* C12: the cancel is looked at only at the loop head. A cancel raised while
\* file i is being started still lets that file complete; once the loop head
\* sees it the loop is left, no later file is loaded or written, the files on
\* disk stay as they are and processed_count + error_count is the number of
\* completed files.
C12_CancelBetweenFiles == []CancelState /\ [][CancelStep]_vars

\* cancelled while the second of three files was starting: two files done
C12_Witness ==
    /\ pc = "done" /\ wasCanceled
    /\ Len(filenames) = 3 /\ file_index = 2
    /\ load_log = <<1, 2>>
    /\ {e.from : e \in disk} = {1, 2}
    /\ processed_count + error_count = 2

\* the files processed so far whose point shapefile was written
PointProducers ==
    {i \in 1..file_index :
        \E o \in ProcessOneFile(filenames[i]).outputs :
            o.path = ShapePath(filenames[i], "points")}

\* C13: when the batch has ended and fewer than two files produced a point
\* output, no combined point or line output has been written.
C13_MergeNeedsTwoPointOutputs ==
    (pc = "done" /\ Cardinality(PointProducers) < 2) =>
        (combined_points = <<>> /\ combined_lines = <<>>)

\* the records file i wrote to its shapefile of this kind, each with the base
\* name of file i; nothing when file i wrote no such shapefile
OwnRecords(i, kind) ==
    LET wrote == {o \in ProcessOneFile(filenames[i]).outputs :
                     o.path = ShapePath(filenames[i], kind)}
    IN IF wrote = {} THEN <<>>
       ELSE LET rows == (CHOOSE o \in wrote : TRUE).rows
            IN [k \in 1..Len(rows) |->
                   [SOURCE_FILE |-> Stem(filenames[i].filename), from |-> i, rec |-> rows[k]]]

RECURSIVE ExpectedCombined(_, _)
ExpectedCombined(i, kind) ==
    IF i > file_index THEN <<>>
    ELSE OwnRecords(i, kind) \o ExpectedCombined(i + 1, kind)

\* C14: after a completed merge the combined point output is the
\* concatenation, in file order, of the point records of every file that
\* wrote a point shapefile, the combined line output likewise for the line
\* records, and every record carries the base name of the file it came from.
C14_CombinedIsTaggedConcatenation ==
    (pc = "done" /\ combined = "written") =>
        /\ combined_points = ExpectedCombined(1, "points")
        /\ combined_lines = ExpectedCombined(1, "line")

ErrorHasMessage ==
    error_count' # error_count =>
        /\ error_count' = error_count + 1
        /\ status_log' = Append(status_log, file_index + 1)

\* C15: every file that adds to error_count also gets a status-bar message
\* naming it; no failure is counted without one.
C15_EveryErrorHasMessage == [][ErrorHasMessage]_vars

---------------------------------------------------------------------------
\* Amplitude range: plot_segy_data, save_plot, _save_plot_for_file
\*
\* A sample matrix is a sequence of traces, each a sequence of integer
\* samples.  The standard deviation of a matrix with n samples, sum S and sum
\* of squares SS is sqrt(q) / n with q = n * SS - S * S, so every number the
\* renderers compute has the form (a + b * sqrt(q)) / d with integers a, b,
\* d > 0: the record [a, b, d, q].  Floating-point rounding is not modelled.

Surd(a, b, d, q) == [a |-> a, b |-> b, d |-> d, q |-> q]
RInt(x) == Surd(x, 0, 1, 0)

Sgn(n) == IF n > 0 THEN 1 ELSE IF n < 0 THEN 0 - 1 ELSE 0

\* the sign of (a + b * sqrt(q)) / d
Sign(x) ==
    LET sa == Sgn(x.a)
        sb == IF x.q = 0 THEN 0 ELSE Sgn(x.b)
    IN IF sb = 0 THEN sa
       ELSE IF sa = 0 \/ sa = sb THEN sb
       ELSE IF x.a * x.a > x.b * x.b * x.q THEN sa
       ELSE IF x.a * x.a < x.b * x.b * x.q THEN sb
       ELSE 0

RSub(x, y) ==
    Surd(x.a * y.d - y.a * x.d, x.b * y.d - y.b * x.d, x.d * y.d,
         IF x.b # 0 THEN x.q ELSE y.q)
RAdd(x, y) ==
    Surd(x.a * y.d + y.a * x.d, x.b * y.d + y.b * x.d, x.d * y.d,
         IF x.b # 0 THEN x.q ELSE y.q)
\* x * n / m for integers n and m > 0
RScale(x, n, m) == Surd(x.a * n, x.b * n, x.d * m, x.q)

RLt(x, y) == Sign(RSub(y, x)) > 0
RLeq(x, y) == Sign(RSub(y, x)) >= 0
REq(x, y) == Sign(RSub(y, x)) = 0

\* the matrix as numpy sees it flattened (C order), as reals
RECURSIVE Flatten(_)
Flatten(m) == IF m = <<>> THEN <<>> ELSE Head(m) \o Flatten(Tail(m))

RECURSIVE SumOf(_)
SumOf(xs) == IF xs = <<>> THEN 0 ELSE Head(xs) + SumOf(Tail(xs))

RECURSIVE SumSqOf(_)
SumSqOf(xs) == IF xs = <<>> THEN 0 ELSE Head(xs) * Head(xs) + SumSqOf(Tail(xs))

RECURSIVE RMin(_)
RMin(xs) == IF Len(xs) = 1 THEN xs[1]
            ELSE IF RLeq(Head(xs), RMin(Tail(xs))) THEN Head(xs) ELSE RMin(Tail(xs))

RECURSIVE RMax(_)
RMax(xs) == IF Len(xs) = 1 THEN xs[1]
            ELSE IF RLeq(RMax(Tail(xs)), Head(xs)) THEN Head(xs) ELSE RMax(Tail(xs))

RECURSIVE Insert(_, _)
Insert(x, sorted) ==
    IF sorted = <<>> THEN <<x>>
    ELSE IF RLeq(x, Head(sorted)) THEN <<x>> \o sorted
    ELSE <<Head(sorted)>> \o Insert(x, Tail(sorted))

RECURSIVE Sorted(_)
Sorted(xs) == IF xs = <<>> THEN <<>> ELSE Insert(Head(xs), Sorted(Tail(xs)))

PercentScale == 100

Percentile_nearest(xs, p) ==
    Sorted(xs)[((p * (Len(xs) - 1) + (PercentScale \div 2)) \div PercentScale) + 1]

\* np.percentile(xs, p), method 'linear': the virtual index p/100 * (n - 1)
\* into the sorted values, interpolated between its two neighbours
Percentile(xs, p) ==
    LET n == Len(xs)
        h == p * (n - 1)
        lo == (h \div PercentScale) + 1
        hi == IF lo < n THEN lo + 1 ELSE n
    IN RAdd(Sorted(xs)[lo],
            RScale(RSub(Sorted(xs)[hi], Sorted(xs)[lo]), h % PercentScale, PercentScale))

TenthsPerUnit == 10

\* mean - k * std and mean + k * std of the samples xs, k given in tenths
LowerLimit(xs, k) ==
    Surd(TenthsPerUnit * SumOf(xs), 0 - k, TenthsPerUnit * Len(xs),
         Len(xs) * SumSqOf(xs) - SumOf(xs) * SumOf(xs))
UpperLimit(xs, k) ==
    Surd(TenthsPerUnit * SumOf(xs), k, TenthsPerUnit * Len(xs),
         Len(xs) * SumSqOf(xs) - SumOf(xs) * SumOf(xs))

\* np.clip(x, lower, upper) = minimum(maximum(x, lower), upper)
Clip(x, lower, upper) ==
    IF RLt(upper, IF RLt(x, lower) THEN lower ELSE x) THEN upper
    ELSE IF RLt(x, lower) THEN lower ELSE x

ApplyStdDevClipping_off(xs, k) == [i \in 1..Len(xs) |-> RInt(xs[i])]

\* _apply_std_dev_clipping on the flattened samples
ApplyStdDevClipping(xs, k) ==
    [i \in 1..Len(xs) |-> Clip(RInt(xs[i]), LowerLimit(xs, k), UpperLimit(xs, k))]

MsPerSecond == 1000
TwoWay == 2

RECURSIVE GCD(_, _)
GCD(m, n) == IF n = 0 THEN m ELSE GCD(n, m % n)

\* the same float with its fraction in lowest terms
Lowest(f) ==
    IF f.k = "nan" THEN f
    ELSE Float(f.n \div GCD(Abs(f.n), f.d), f.d \div GCD(Abs(f.n), f.d))

ToDepth_oneWay(t, vel) == Lowest(FMul(FDiv(Float(t, 1), MsPerSecond), vel))

\* (twt / 1000.0) * velocity / 2.0 for one time of the axis
ToDepth(t, vel) == Lowest(FDiv(FMul(FDiv(Float(t, 1), MsPerSecond), vel), TwoWay))

\* depth = (twt / 1000.0) * velocity / 2.0 on the whole axis (274, 2655)
DepthAxis(twt, vel) == [i \in 1..Len(twt) |-> ToDepth(twt[i], vel)]

\* plot_segy_data, lines 251-283: the matrix drawn, the colour limits and the
\* axis extent
PlotSegyData(data, file_info, clip_pct, depth_on, vel, clip_on, std_dev_on, std_dev_val) ==
    LET xs == Flatten(data)
        plot_data == IF std_dev_on THEN ApplyStdDevClipping(xs, std_dev_val)
                     ELSE [i \in 1..Len(xs) |-> RInt(xs[i])]
        twt == file_info.twt
    IN [path |-> "plot",
        plot_data |-> plot_data,
        vm0 |-> IF clip_on THEN RInt(0) ELSE RMin(plot_data),
        vm1 |-> IF clip_on THEN Percentile(plot_data, clip_pct) ELSE RMax(plot_data),
        extent |-> <<1, file_info.n_traces,
                     IF depth_on THEN DepthAxis(twt, vel)[Len(twt)] ELSE Float(twt[Len(twt)], 1),
                     IF depth_on THEN DepthAxis(twt, vel)[1] ELSE Float(twt[1], 1)>>]

\* save_plot with full_resolution, lines 387-418, on the settings read from
\* the controls at 379-385
SavePlotFull(data, file_info, clip_pct, depth_on, vel, clip_on, std_dev_on, std_dev_val) ==
    LET xs == Flatten(data)
        plot_data == IF std_dev_on THEN ApplyStdDevClipping(xs, std_dev_val)
                     ELSE [i \in 1..Len(xs) |-> RInt(xs[i])]
        twt == file_info.twt
    IN [path |-> "save",
        plot_data |-> plot_data,
        vm0 |-> IF clip_on THEN RInt(0) ELSE RMin(plot_data),
        vm1 |-> IF clip_on THEN Percentile(plot_data, clip_pct) ELSE RMax(plot_data),
        extent |-> <<1, file_info.n_traces,
                     IF depth_on THEN DepthAxis(twt, vel)[Len(twt)] ELSE Float(twt[Len(twt)], 1),
                     IF depth_on THEN DepthAxis(twt, vel)[1] ELSE Float(twt[1], 1)>>]

SavePlotForFile_noStdDev(data, file_info, clip_pct, depth_on, vel, clip_on, std_dev_on, std_dev_val) ==
    PlotSegyData(data, file_info, clip_pct, depth_on, vel, clip_on, FALSE, std_dev_val)

\* _save_plot_for_file, lines 2633-2664
SavePlotForFile(data, file_info, clip_pct, depth_on, vel, clip_on, std_dev_on, std_dev_val) ==
    LET xs == Flatten(data)
        plot_data == IF std_dev_on THEN ApplyStdDevClipping(xs, std_dev_val)
                     ELSE [i \in 1..Len(xs) |-> RInt(xs[i])]
        twt == file_info.twt
    IN [path |-> "batch",
        plot_data |-> plot_data,
        vm0 |-> IF clip_on THEN RInt(0) ELSE RMin(plot_data),
        vm1 |-> IF clip_on THEN Percentile(plot_data, clip_pct) ELSE RMax(plot_data),
        extent |-> <<1, file_info.n_traces,
                     IF depth_on THEN DepthAxis(twt, vel)[Len(twt)] ELSE Float(twt[Len(twt)], 1),
                     IF depth_on THEN DepthAxis(twt, vel)[1] ELSE Float(twt[1], 1)>>]

---------------------------------------------------------------------------
\* The plot controls and the renders they trigger

\* the most samples a matrix holds
MaxSamples == 3

Samples == {0 - 2, 0, 3}
TraceCounts == {1, 2}
SampleIntervals == {1000}
Shapes == {s \in TraceCounts \X (1..MaxSamples) : s[1] * s[2] <= MaxSamples}
Matrices == UNION {[1..s[1] -> [1..s[2] -> Samples]] : s \in Shapes}

\* values of the three spin boxes: clip_spinbox is 50..100 (693),
\* std_dev_spinbox is 0.1..10.0 in steps of 0.1 (713-716), velocity_spinbox
\* is 1000..5000 (667)
Percentiles == {50, 99}
StdDevValues == {10, 20}
Velocities == {1500, 2000}

\* file_info of _load_segy_file_data / SegyLoaderThread for a matrix sampled
\* every dt milliseconds
FileInfoOf(data, dt) ==
    [n_traces |-> Len(data), twt |-> [i \in 1..Len(data[1]) |-> (i - 1) * dt]]

\* the window after construction; last_clip_percentile comes from the config (694)
InitAmp ==
    /\ current_data = <<>> /\ current_file_info = [n_traces |-> 0, twt |-> <<>>]
    /\ clip_enabled = TRUE /\ std_dev_enabled = FALSE
    /\ clip_percentile \in Percentiles /\ std_dev_value = 20
    /\ depth_mode = FALSE /\ velocity = 1500
    /\ shown = NoRender /\ exported = NoRender /\ both_plotted = FALSE
    /\ NavIdle /\ TimeIdle /\ BatchIdle /\ UiIdle

Loaded == current_data # <<>>

\* update_plot (2197-2231) under the given control values: what is drawn
\* afterwards; nothing changes while no file is loaded
UpdatePlot(data, file_info, clip_pct, depth_on, vel, clip_on, std_dev_on, std_dev_val) ==
    IF data # <<>>
    THEN PlotSegyData(data, file_info, clip_pct, depth_on, vel, clip_on, std_dev_on, std_dev_val)
    ELSE shown

\* the two check boxes while a handler runs, with the note that some
\* update_plot call inside it saw both checked
NotePlot(w, loaded) ==
    IF loaded /\ w.clip /\ w.std THEN [w EXCEPT !.both = TRUE] ELSE w

RECURSIVE OnClipEnabledChanged(_, _), OnStdDevEnabledChanged(_, _)

OnClipEnabledChanged_keepStdDev(w, loaded) == NotePlot(w, loaded)

\* on_clip_enabled_changed (2147-2155); setChecked(False) on a checked box
\* emits stateChanged, which runs the other handler before this one goes on
OnClipEnabledChanged(w, loaded) ==
    NotePlot(IF w.clip /\ w.std
             THEN OnStdDevEnabledChanged([w EXCEPT !.std = FALSE], loaded)
             ELSE w, loaded)

\* on_std_dev_enabled_changed (2157-2165)
OnStdDevEnabledChanged(w, loaded) ==
    NotePlot(IF w.std /\ w.clip
             THEN OnClipEnabledChanged([w EXCEPT !.clip = FALSE], loaded)
             ELSE w, loaded)

\* the decimal digits, and str(n) of an integer as a sequence of characters
Digits == <<"0", "1", "2", "3", "4", "5", "6", "7", "8", "9">>

RECURSIVE StrOfInt(_)
StrOfInt(n) ==
    IF n < 0 THEN <<"-">> \o StrOfInt(0 - n)
    ELSE IF n < 10 THEN <<Digits[n + 1]>>
    ELSE StrOfInt(n \div 10) \o <<Digits[(n % 10) + 1]>>

\* the selection the window holds: the trace number and the text of the field
Selection(n, text) == [current_trace_number |-> n, trace_number_input |-> text]

\* current_file_info before any load (526)
NoFileInfo == [n_traces |-> 0, twt |-> <<>>]

SelectTrace_unchecked(file_info, trace_number, sel) ==
    Selection(trace_number, StrOfInt(trace_number))

\* select_trace (946-969): nothing without a file, nothing for a number
\* outside 1..n_traces, otherwise the number is stored and written to the field
SelectTrace(file_info, trace_number, sel) ==
    IF file_info = NoFileInfo THEN sel
    ELSE IF trace_number < 1 \/ trace_number > file_info.n_traces THEN sel
    ELSE Selection(trace_number, StrOfInt(trace_number))

\* on_file_loaded (885-918) for the matrix data sampled every dt
\* milliseconds: the file replaces the loaded one, the plot is drawn from the
\* controls, the first trace is selected
OnFileLoaded(data, dt) ==
    /\ current_data' = data
    /\ current_file_info' = FileInfoOf(data, dt)
    /\ shown' = UpdatePlot(data, FileInfoOf(data, dt), clip_percentile, depth_mode,
                           velocity, clip_enabled, std_dev_enabled, std_dev_value)
    /\ both_plotted' = (both_plotted \/ (clip_enabled /\ std_dev_enabled))
    /\ exported' = NoRender
    /\ \E sel \in {SelectTrace(FileInfoOf(data, dt), 1,
                                Selection(current_trace_number, trace_number_input))} :
          /\ current_trace_number' = sel.current_trace_number
          /\ trace_number_input' = sel.trace_number_input
    /\ UNCHANGED <<clip_enabled, std_dev_enabled, clip_percentile, std_dev_value,
                   depth_mode, velocity, navVars, timeVars, batchVars, range_result,
                   headerVars, utmVars>>

\* a file finishes loading into the empty window
FileLoaded ==
    /\ ~Loaded
    /\ \E data \in Matrices, dt \in SampleIntervals : OnFileLoaded(data, dt)

\* the user clicks the Clip box
ClipToggled ==
    /\ \E w \in {OnClipEnabledChanged([clip |-> ~clip_enabled, std |-> std_dev_enabled,
                                       both |-> both_plotted], Loaded)} :
          /\ clip_enabled' = w.clip
          /\ std_dev_enabled' = w.std
          /\ both_plotted' = w.both
          /\ shown' = UpdatePlot(current_data, current_file_info, clip_percentile,
                                 depth_mode, velocity, w.clip, w.std, std_dev_value)
    /\ exported' = NoRender
    /\ UNCHANGED <<current_data, current_file_info, clip_percentile, std_dev_value,
                   depth_mode, velocity, navVars, timeVars, batchVars, uiVars>>

\* the user clicks the Standard Deviation box
StdDevToggled ==
    /\ \E w \in {OnStdDevEnabledChanged([clip |-> clip_enabled, std |-> ~std_dev_enabled,
                                         both |-> both_plotted], Loaded)} :
          /\ clip_enabled' = w.clip
          /\ std_dev_enabled' = w.std
          /\ both_plotted' = w.both
          /\ shown' = UpdatePlot(current_data, current_file_info, clip_percentile,
                                 depth_mode, velocity, w.clip, w.std, std_dev_value)
    /\ exported' = NoRender
    /\ UNCHANGED <<current_data, current_file_info, clip_percentile, std_dev_value,
                   depth_mode, velocity, navVars, timeVars, batchVars, uiVars>>

\* on_clip_percentile_changed (2175-2181)
ClipPercentileChanged ==
    /\ \E p \in Percentiles \ {clip_percentile} :
          /\ clip_percentile' = p
          /\ shown' = UpdatePlot(current_data, current_file_info, p, depth_mode,
                                 velocity, clip_enabled, std_dev_enabled, std_dev_value)
    /\ both_plotted' = (both_plotted \/ (Loaded /\ clip_enabled /\ std_dev_enabled))
    /\ exported' = NoRender
    /\ UNCHANGED <<current_data, current_file_info, clip_enabled, std_dev_enabled,
                   std_dev_value, depth_mode, velocity, navVars, timeVars, batchVars, uiVars>>

\* on_std_dev_changed (2167-2173): redraws only while Standard Deviation is checked
StdDevValueChanged ==
    /\ \E k \in StdDevValues \ {std_dev_value} :
          /\ std_dev_value' = k
          /\ shown' = IF std_dev_enabled
                      THEN UpdatePlot(current_data, current_file_info, clip_percentile,
                                      depth_mode, velocity, clip_enabled, std_dev_enabled, k)
                      ELSE shown
    /\ both_plotted' = (both_plotted \/ (Loaded /\ clip_enabled /\ std_dev_enabled))
    /\ exported' = NoRender
    /\ UNCHANGED <<current_data, current_file_info, clip_enabled, std_dev_enabled,
                   clip_percentile, depth_mode, velocity, navVars, timeVars, batchVars, uiVars>>

\* on_depth_mode_changed (2183-2187)
DepthModeToggled ==
    /\ depth_mode' = ~depth_mode
    /\ shown' = UpdatePlot(current_data, current_file_info, clip_percentile, ~depth_mode,
                           velocity, clip_enabled, std_dev_enabled, std_dev_value)
    /\ both_plotted' = (both_plotted \/ (Loaded /\ clip_enabled /\ std_dev_enabled))
    /\ exported' = NoRender
    /\ UNCHANGED <<current_data, current_file_info, clip_enabled, std_dev_enabled,
                   clip_percentile, std_dev_value, velocity, navVars, timeVars, batchVars, uiVars>>

\* on_velocity_changed (2189-2195): redraws only in depth mode
VelocityChanged ==
    /\ \E v \in Velocities \ {velocity} :
          /\ velocity' = v
          /\ shown' = IF depth_mode
                      THEN UpdatePlot(current_data, current_file_info, clip_percentile,
                                      depth_mode, v, clip_enabled, std_dev_enabled,
                                      std_dev_value)
                      ELSE shown
    /\ both_plotted' = (both_plotted \/ (Loaded /\ depth_mode /\ clip_enabled /\ std_dev_enabled))
    /\ exported' = NoRender
    /\ UNCHANGED <<current_data, current_file_info, clip_enabled, std_dev_enabled,
                   clip_percentile, std_dev_value, depth_mode, navVars, timeVars, batchVars, uiVars>>

\* SegyGui.save_plot (2233-2270) with SegyPlotWidget.save_plot (369-447):
\* the full-resolution branch renders again from the controls, the other
\* branch saves the figure on display
SavePlot ==
    /\ Loaded
    /\ \E full_resolution \in BOOLEAN :
          exported' = IF full_resolution
                      THEN SavePlotFull(current_data, current_file_info, clip_percentile,
                                        depth_mode, velocity, clip_enabled,
                                        std_dev_enabled, std_dev_value)
                      ELSE [shown EXCEPT !.path = "display"]
    /\ UNCHANGED <<current_data, current_file_info, clip_enabled, std_dev_enabled,
                   clip_percentile, std_dev_value, depth_mode, velocity, shown,
                   both_plotted, navVars, timeVars, batchVars, uiVars>>

\* batch_process reads the controls (2376-2383) and renders the file it is on
\* (2417), here the file whose matrix is also the one on display
BatchRender ==
    /\ Loaded
    /\ exported' = SavePlotForFile(current_data, current_file_info, clip_percentile,
                                   depth_mode, velocity, clip_enabled, std_dev_enabled,
                                   std_dev_value)
    /\ UNCHANGED <<current_data, current_file_info, clip_enabled, std_dev_enabled,
                   clip_percentile, std_dev_value, depth_mode, velocity, shown,
                   both_plotted, navVars, timeVars, batchVars, uiVars>>

NextAmp ==
    \/ FileLoaded \/ ClipToggled \/ StdDevToggled \/ ClipPercentileChanged
    \/ StdDevValueChanged \/ DepthModeToggled \/ VelocityChanged
    \/ SavePlot \/ BatchRender

SpecAmp == InitAmp /\ [][NextAmp]_vars

\* the i-th smallest of the integers xs, by rank
KthSmallest(xs, i) ==
    CHOOSE x \in {xs[j] : j \in DOMAIN xs} :
        /\ Cardinality({j \in DOMAIN xs : xs[j] < x}) < i
        /\ i <= Cardinality({j \in DOMAIN xs : xs[j] <= x})

\* 100 times the p-th percentile of xs by linear interpolation: the two
\* order statistics around position p/100 * (n - 1), weighted by its
\* fractional part
LinearPercentileTimes100(xs, p) ==
    LET n == Len(xs)
        lo == ((p * (n - 1)) \div 100) + 1
        frac == (p * (n - 1)) % 100
    IN (100 - frac) * KthSmallest(xs, lo)
           + frac * KthSmallest(xs, IF lo < n THEN lo + 1 ELSE n)

Renders == {r \in {shown, exported} : r.path # "none"}

\* C16: with Clip on and Standard Deviation off, every render has lower
\* bound 0 and upper bound the clip_percentile-th percentile of all samples,
\* linearly interpolated.
C16_PercentileRange ==
    (clip_enabled /\ ~std_dev_enabled) =>
        \A r \in Renders :
            /\ r.vm0 = RInt(0)
            /\ REq(RScale(r.vm1, 100, 1),
                   RInt(LinearPercentileTimes100(Flatten(current_data), clip_percentile)))

\* the samples 3, -2 at the 50th percentile: drawn and batch-rendered with
\* range [0, 1/2]
C16_Witness ==
    /\ clip_enabled /\ ~std_dev_enabled /\ clip_percentile = 50
    /\ Flatten(current_data) = <<3, 0 - 2>>
    /\ shown.path = "plot" /\ exported.path = "batch"
    /\ exported.vm0 = RInt(0) /\ REq(exported.vm1, Surd(1, 0, 2, 0))
    /\ REq(shown.vm1, Surd(1, 0, 2, 0))

\* C17: in every render, under every policy, lower bound <= upper bound.
C17_LowerNotAboveUpper == \A r \in Renders : RLeq(r.vm0, r.vm1)

\* the renders made under the std_dev policy
StdDevRenders == IF std_dev_enabled /\ ~clip_enabled THEN Renders ELSE {}

\* every plotted sample is the original one clipped to [lower, upper], and
\* vm0, vm1 are the least and the greatest plotted sample
ClippedThenMinMax(r, lower, upper) ==
    LET xs == Flatten(current_data)
    IN /\ Len(r.plot_data) = Len(xs)
       /\ \A i \in DOMAIN xs :
             /\ RLt(RInt(xs[i]), lower) => REq(r.plot_data[i], lower)
             /\ RLt(upper, RInt(xs[i])) => REq(r.plot_data[i], upper)
             /\ (RLeq(lower, RInt(xs[i])) /\ RLeq(RInt(xs[i]), upper))
                    => r.plot_data[i] = RInt(xs[i])
       /\ \A i \in DOMAIN xs : RLeq(r.vm0, r.plot_data[i]) /\ RLeq(r.plot_data[i], r.vm1)
       /\ \E i \in DOMAIN xs : REq(r.vm0, r.plot_data[i])
       /\ \E i \in DOMAIN xs : REq(r.vm1, r.plot_data[i])

\* C18 as stated: under the std_dev(k) policy the samples are clipped to
\* [mean - k*std, mean + k*std] of the original matrix, the bounds are the
\* minimum and maximum of the clipped matrix, and both bounds lie strictly
\* inside that interval.
C18_BoundsStrictlyInside ==
    \A r \in StdDevRenders :
        LET lower == LowerLimit(Flatten(current_data), std_dev_value)
            upper == UpperLimit(Flatten(current_data), std_dev_value)
        IN /\ ClippedThenMinMax(r, lower, upper)
           /\ RLt(lower, r.vm0) /\ RLt(r.vm1, upper)

\* C18 amended: as above, with both bounds in the closed interval; a bound
\* is an end of the interval exactly when a sample was clipped to it or the
\* matrix is constant.
C18_BoundsWithinLimits ==
    \A r \in StdDevRenders :
        LET lower == LowerLimit(Flatten(current_data), std_dev_value)
            upper == UpperLimit(Flatten(current_data), std_dev_value)
            xs == Flatten(current_data)
        IN /\ ClippedThenMinMax(r, lower, upper)
           /\ RLeq(lower, r.vm0) /\ RLeq(r.vm1, upper)
           /\ REq(r.vm1, upper) <=> \E i \in DOMAIN xs : RLeq(upper, RInt(xs[i]))
           /\ REq(r.vm0, lower) <=> \E i \in DOMAIN xs : RLeq(RInt(xs[i]), lower)

\* the samples -2, -2, 3 under std_dev(1.0): mean -1/3, std sqrt(50)/3; the
\* sample 3 is drawn at the upper limit (-10 + 10 sqrt(50)) / 30, between 2
\* and 3, and that limit is the upper bound
C18_Witness ==
    /\ std_dev_enabled /\ ~clip_enabled /\ std_dev_value = 10
    /\ Flatten(current_data) = <<0 - 2, 0 - 2, 3>>
    /\ shown.path = "plot"
    /\ shown.plot_data[3] = Surd(0 - 10, 10, 30, 50)
    /\ shown.vm1 = Surd(0 - 10, 10, 30, 50)
    /\ RLt(RInt(2), shown.vm1) /\ RLt(shown.vm1, RInt(3))
    /\ shown.vm0 = RInt(0 - 2)

NeverBothPolicies == ~(clip_enabled /\ std_dev_enabled) /\ ~both_plotted

EnablingDisablesOther ==
    /\ (~clip_enabled /\ clip_enabled') => ~std_dev_enabled'
    /\ (~std_dev_enabled /\ std_dev_enabled') => ~clip_enabled'

\* C19: the window starts with Clip on and Standard Deviation off; after any
\* sequence of clicks on the two boxes they are never both checked, no plot
\* was ever computed with both, and a click that checks one leaves the other
\* unchecked.
C19_PoliciesExclusive ==
    /\ (clip_enabled = TRUE /\ std_dev_enabled = FALSE)
    /\ []NeverBothPolicies
    /\ [][EnablingDisablesOther]_vars

\* Standard Deviation was checked on a loaded file: Clip is off and the plot
\* shows the min/max of the clipped samples
C19_Witness ==
    /\ Loaded /\ std_dev_enabled /\ ~clip_enabled /\ ~both_plotted
    /\ shown.path = "plot"
    /\ shown.plot_data = ApplyStdDevClipping(Flatten(current_data), std_dev_value)
    /\ shown.vm0 = RMin(shown.plot_data)

SameRender(r1, r2) ==
    /\ r1.plot_data = r2.plot_data
    /\ REq(r1.vm0, r2.vm0) /\ REq(r1.vm1, r2.vm1)
    /\ r1.extent[1] = r2.extent[1] /\ r1.extent[2] = r2.extent[2]
    /\ FEq(r1.extent[3], r2.extent[3]) /\ FEq(r1.extent[4], r2.extent[4])

\* C20: a full-resolution save or a batch render of the displayed matrix,
\* made under the settings the controls show, has the clipped matrix, the
\* amplitude bounds and the extent of the interactive plot.
C20_RenderersAgree ==
    exported.path # "none" => SameRender(exported, shown)

\* the samples -2, -2, 3 batch-rendered under std_dev(1.0) in depth mode at
\* 2000 m/s: the clipped matrix of the display, vertical extent 2000 m .. 0 m
C20_Witness ==
    /\ exported.path = "batch" /\ shown.path = "plot"
    /\ std_dev_enabled /\ ~clip_enabled /\ std_dev_value = 10
    /\ depth_mode /\ velocity = 2000
    /\ Flatten(current_data) = <<0 - 2, 0 - 2, 3>>
    /\ exported.plot_data[3] = Surd(0 - 10, 10, 30, 50)
    /\ exported.plot_data = shown.plot_data
    /\ FEq(exported.extent[3], Float(2000, 1)) /\ FEq(exported.extent[4], Float(0, 1))

---------------------------------------------------------------------------
\* The vertical axis

\* f is the number t_ms / 1000 * vel / 2
IsDepthOf(f, t_ms, vel) ==
    /\ f.k = "num"
    /\ f.n * (MsPerSecond * TwoWay) = t_ms * vel * f.d

\* C21: the depth axis has, at every index, the depth
\* time_ms / 1000 * velocity / 2 of the time at that index, and every render
\* has the last axis element as its deep boundary and the first as its
\* shallow boundary, in depth mode and in time mode.
C21_DepthAxisAndExtent ==
    Loaded =>
        LET twt == current_file_info.twt
            depth == DepthAxis(twt, velocity)
        IN /\ Len(depth) = Len(twt)
           /\ \A i \in 1..Len(twt) : IsDepthOf(depth[i], twt[i], velocity)
           /\ \A r \in Renders :
                 IF depth_mode
                 THEN /\ IsDepthOf(r.extent[3], twt[Len(twt)], velocity)
                      /\ IsDepthOf(r.extent[4], twt[1], velocity)
                 ELSE /\ FEq(r.extent[3], Float(twt[Len(twt)], 1))
                      /\ FEq(r.extent[4], Float(twt[1], 1))

\* the axis 0 ms, 1000 ms at 1500 m/s in depth mode: depths 0 m, 750 m, drawn
\* and saved with the extent 750 .. 0
C21_Witness ==
    /\ Loaded /\ depth_mode /\ velocity = 1500
    /\ current_file_info.twt = <<0, 1000>>
    /\ DepthAxis(current_file_info.twt, velocity) = <<Float(0, 1), Float(750, 1)>>
    /\ shown.path = "plot" /\ exported.path = "save"
    /\ shown.extent[3] = Float(750, 1) /\ shown.extent[4] = Float(0, 1)
    /\ exported.extent[3] = Float(750, 1)

---------------------------------------------------------------------------
\* One call of a renderer on the arguments it is handed

\* np.percentile (258, 2640) raises ValueError unless 0 <= q <= 100
PercentileAccepted(p) == 0 <= p /\ p <= 100

\* plot_segy_data (239-303) called once: the std-dev clipping of 251-254 runs
\* before np.percentile looks at clip_percentile at 258; nothing is drawn
\* when that raises
CallOfPlotSegyData(data, file_info, clip_pct, depth_on, vel, clip_on, std_dev_on, std_dev_val) ==
    IF clip_on /\ ~PercentileAccepted(clip_pct)
    THEN [raised |-> TRUE, clipped |-> std_dev_on, render |-> NoRender]
    ELSE [raised |-> FALSE, clipped |-> std_dev_on,
          render |-> PlotSegyData(data, file_info, clip_pct, depth_on, vel,
                                  clip_on, std_dev_on, std_dev_val)]

\* _save_plot_for_file (2631-2693) called once
CallOfSavePlotForFile(data, file_info, clip_pct, depth_on, vel, clip_on, std_dev_on, std_dev_val) ==
    IF clip_on /\ ~PercentileAccepted(clip_pct)
    THEN [raised |-> TRUE, clipped |-> std_dev_on, render |-> NoRender]
    ELSE [raised |-> FALSE, clipped |-> std_dev_on,
          render |-> SavePlotForFile(data, file_info, clip_pct, depth_on, vel,
                                     clip_on, std_dev_on, std_dev_val)]

\* clip_percentile and std_dev_value (in tenths) as arguments: the two
\* functions take any number (239, 2631)
PassedPercentiles == {30, 50, 99, 120}
PassedStdDevValues == {0, 10, 110}

\* the arguments of the call, held in the variables of the same names
InitRange ==
    /\ current_data \in Matrices
    /\ current_file_info \in {FileInfoOf(current_data, dt) : dt \in SampleIntervals}
    /\ clip_enabled \in BOOLEAN /\ std_dev_enabled \in BOOLEAN
    /\ clip_percentile \in PassedPercentiles
    /\ std_dev_value \in PassedStdDevValues
    /\ depth_mode = FALSE /\ velocity = 1500
    /\ shown = NoRender /\ exported = NoRender /\ both_plotted = FALSE
    /\ range_result = NoCall
    /\ NavIdle /\ TimeIdle /\ BatchIdle /\ HeaderIdle /\ UtmIdle /\ SelIdle

CallPlotSegyData ==
    /\ range_result = NoCall
    /\ \E c \in {CallOfPlotSegyData(current_data, current_file_info, clip_percentile,
                                    depth_mode, velocity, clip_enabled, std_dev_enabled,
                                    std_dev_value)} :
          /\ range_result' = c
          /\ shown' = c.render
    /\ UNCHANGED <<current_data, current_file_info, clip_enabled, std_dev_enabled,
                   clip_percentile, std_dev_value, depth_mode, velocity, exported,
                   both_plotted, navVars, timeVars, batchVars, headerVars, utmVars,
                   selVars>>

CallSavePlotForFile ==
    /\ range_result = NoCall
    /\ \E c \in {CallOfSavePlotForFile(current_data, current_file_info, clip_percentile,
                                       depth_mode, velocity, clip_enabled,
                                       std_dev_enabled, std_dev_value)} :
          /\ range_result' = c
          /\ exported' = c.render
    /\ UNCHANGED <<current_data, current_file_info, clip_enabled, std_dev_enabled,
                   clip_percentile, std_dev_value, depth_mode, velocity, shown,
                   both_plotted, navVars, timeVars, batchVars, headerVars, utmVars,
                   selVars>>

NextRange == CallPlotSegyData \/ CallSavePlotForFile

SpecRange == InitRange /\ [][NextRange]_vars

\* the configuration of a policy in force is outside its range:
\* percentile outside [50, 100], multiplier outside (0, 10]
InvalidConfiguration ==
    \/ clip_enabled /\ ~(50 <= clip_percentile /\ clip_percentile <= 100)
    \/ std_dev_enabled /\ ~(0 < std_dev_value /\ std_dev_value <= 10 * TenthsPerUnit)

---------------------------------------------------------------------------
\* The header listings and the field descriptions

\* get_binary_header_decoder (1211-1457): for each descriptor key, its enumerated
\* codes with their descriptions; << >> is a descriptor with no codes

BinaryHeaderDecoder ==
    "DataSampleFormat" :>
        ( 1 :> "4-byte IBM floating-point" @@
          2 :> "4-byte, two's complement integer" @@
          3 :> "2-byte, two's complement integer" @@
          4 :> "4-byte fixed-point with gain (obsolete)" @@
          5 :> "4-byte IEEE floating-point" @@
          6 :> "8-byte IEEE floating-point" @@
          7 :> "3-byte two's complement integer" @@
          8 :> "1-byte, two's complement integer" @@
          9 :> "8-byte, two's complement integer" @@
          10 :> "4-byte, unsigned integer" @@
          11 :> "2-byte, unsigned integer" @@
          12 :> "8-byte, unsigned integer" @@
          15 :> "3-byte, unsigned integer" @@
          16 :> "1-byte, unsigned integer" ) @@
    "TraceSortingCode" :>
        ( (0 - 1) :> "Other (should be explained in Extended Textual File Header)" @@
          0 :> "Unknown" @@
          1 :> "As recorded (no sorting)" @@
          2 :> "CDP ensemble" @@
          3 :> "Single fold continuous profile" @@
          4 :> "Horizontally stacked" @@
          5 :> "Common source point" @@
          6 :> "Common receiver point" @@
          7 :> "Common offset point" @@
          8 :> "Common mid-point" @@
          9 :> "Common conversion point" ) @@
    "SweepTypeCode" :>
        ( 1 :> "Linear" @@
          2 :> "Parabolic" @@
          3 :> "Exponential" @@
          4 :> "Other" ) @@
    "TaperType" :>
        ( 1 :> "Linear" @@
          2 :> "Cosine squared" @@
          3 :> "Other" ) @@
    "CorrelatedDataTraces" :>
        ( 1 :> "No" @@
          2 :> "Yes" ) @@
    "BinaryGainRecovered" :>
        ( 1 :> "Yes" @@
          2 :> "No" ) @@
    "AmplitudeRecoveryMethod" :>
        ( 1 :> "None" @@
          2 :> "Spherical divergence" @@
          3 :> "AGC" @@
          4 :> "Other" ) @@
    "MeasurementSystem" :>
        ( 1 :> "Meters" @@
          2 :> "Feet" ) @@
    "ImpulseSignalPolarity" :>
        ( 1 :> "Increase in pressure or upward geophone case movement gives negative number on trace" @@
          2 :> "Increase in pressure or upward geophone case movement gives positive number on trace" ) @@
    "VibratoryPolarityCode" :>
        ( 1 :> "Seismic signal lags pilot signal by 337.5° to 22.5°" @@
          2 :> "Seismic signal lags pilot signal by 22.5° to 67.5°" @@
          3 :> "Seismic signal lags pilot signal by 67.5° to 112.5°" @@
          4 :> "Seismic signal lags pilot signal by 112.5° to 157.5°" @@
          5 :> "Seismic signal lags pilot signal by 157.5° to 202.5°" @@
          6 :> "Seismic signal lags pilot signal by 202.5° to 247.5°" @@
          7 :> "Seismic signal lags pilot signal by 247.5° to 292.5°" @@
          8 :> "Seismic signal lags pilot signal by 292.5° to 337.5°" ) @@
    "TimeBasisCode" :>
        ( 1 :> "Local" @@
          2 :> "GMT (Greenwich Mean Time)" @@
          3 :> "Other (should be explained in Extended Textual File Header)" @@
          4 :> "UTC (Coordinated Universal Time)" @@
          5 :> "GPS (Global Positioning System Time)" ) @@
    "FixedLengthTraceFlag" :>
        ( 0 :> "Variable length traces (traditional SEG-Y)" @@
          1 :> "Fixed length traces (all traces have same sample interval and number of samples)" ) @@
    "JobIdentificationNumber" :> << >> @@
    "LineNumber" :> << >> @@
    "ReelNumber" :> << >> @@
    "NumberOfDataTracesPerRecord" :> << >> @@
    "NumberOfAuxiliaryTracesPerRecord" :> << >> @@
    "SampleIntervalInMicroseconds" :> << >> @@
    "SampleIntervalInMicrosecondsOfOriginalFieldRecording" :> << >> @@
    "NumberOfSamplesPerDataTrace" :> << >> @@
    "NumberOfSamplesPerDataTraceForOriginalFieldRecording" :> << >> @@
    "EnsembleFold" :> << >> @@
    "VerticalSumCode" :>
        ( 1 :> "No sum" @@
          2 :> "Two sum" @@
          3 :> "Three sum" @@
          4 :> "Four sum" @@
          5 :> "Five sum" @@
          6 :> "Six sum" @@
          7 :> "Seven sum" @@
          8 :> "Eight sum" @@
          9 :> "Nine sum" @@
          10 :> "Ten sum" @@
          11 :> "Eleven sum" @@
          12 :> "Twelve sum" @@
          13 :> "Thirteen sum" @@
          14 :> "Fourteen sum" @@
          15 :> "Fifteen sum" @@
          16 :> "Sixteen sum" ) @@
    "SweepFrequencyAtStart" :> << >> @@
    "SweepFrequencyAtEnd" :> << >> @@
    "SweepLengthInMilliseconds" :> << >> @@
    "SweepChannelNumber" :> << >> @@
    "SweepTraceTaperLengthAtStartInMilliseconds" :> << >> @@
    "SweepTraceTaperLengthAtEndInMilliseconds" :> << >> @@
    "ExtendedNumberOfAuxiliaryTracesPerRecord" :> << >> @@
    "ExtendedNumberOfSamplesPerDataTrace" :> << >> @@
    "ExtendedNumberOfSamplesPerDataTraceForOriginalFieldRecording" :> << >> @@
    "ExtendedEnsembleFold" :> << >> @@
    "SEGYFormatRevisionNumber" :>
        ( 0 :> "SEG-Y Rev 0" @@
          1 :> "SEG-Y Rev 1" @@
          2 :> "SEG-Y Rev 2" ) @@
    "SEGYFormatRevisionNumberMinor" :> << >> @@
    "NumberOfExtendedTextualFileHeaderRecords" :> << >>

\* field_mappings of decode_binary_header_value (1468-1504), in the order of the
\* dictionary: descriptor key, then the segyio names that stand for it

DecodeFieldMappings ==
    << <<"DataSampleFormat", <<"Format">>>>,
       <<"TraceSortingCode", <<"SortingCode">>>>,
       <<"SweepTypeCode", <<"Sweep">>>>,
       <<"TaperType", <<"Taper">>>>,
       <<"CorrelatedDataTraces", <<"CorrelatedTraces">>>>,
       <<"BinaryGainRecovered", <<"BinaryGainRecovery">>>>,
       <<"AmplitudeRecoveryMethod", <<"AmplitudeRecovery">>>>,
       <<"MeasurementSystem", <<"MeasurementSystem">>>>,
       <<"ImpulseSignalPolarity", <<"ImpulseSignalPolarity">>>>,
       <<"VibratoryPolarityCode", <<"VibratoryPolarity">>>>,
       <<"FixedLengthTraceFlag", <<"TraceFlag">>>>,
       <<"JobIdentificationNumber", <<"JobID">>>>,
       <<"LineNumber", <<"LineNumber">>>>,
       <<"ReelNumber", <<"ReelNumber">>>>,
       <<"NumberOfDataTracesPerRecord", <<"Traces">>>>,
       <<"NumberOfAuxiliaryTracesPerRecord", <<"AuxTraces">>>>,
       <<"SampleIntervalInMicroseconds", <<"Interval">>>>,
       <<"SampleIntervalInMicrosecondsOfOriginalFieldRecording", <<"IntervalOriginal">>>>,
       <<"NumberOfSamplesPerDataTrace", <<"Samples">>>>,
       <<"NumberOfSamplesPerDataTraceForOriginalFieldRecording", <<"SamplesOriginal">>>>,
       <<"EnsembleFold", <<"EnsembleFold">>>>,
       <<"VerticalSumCode", <<"VerticalSum">>>>,
       <<"SweepFrequencyAtStart", <<"SweepFrequencyStart">>>>,
       <<"SweepFrequencyAtEnd", <<"SweepFrequencyEnd">>>>,
       <<"SweepLengthInMilliseconds", <<"SweepLength">>>>,
       <<"SweepChannelNumber", <<"SweepChannel">>>>,
       <<"SweepTraceTaperLengthAtStartInMilliseconds", <<"SweepTaperStart">>>>,
       <<"SweepTraceTaperLengthAtEndInMilliseconds", <<"SweepTaperEnd">>>>,
       <<"ExtendedNumberOfAuxiliaryTracesPerRecord", <<"ExtAuxTraces">>>>,
       <<"ExtendedNumberOfSamplesPerDataTrace", <<"ExtSamples">>>>,
       <<"ExtendedNumberOfSamplesPerDataTraceForOriginalFieldRecording", <<"ExtSamplesOriginal">>>>,
       <<"ExtendedEnsembleFold", <<"ExtEnsembleFold">>>>,
       <<"SEGYFormatRevisionNumber", <<"SEGYRevision">>>>,
       <<"SEGYFormatRevisionNumberMinor", <<"SEGYRevisionMinor">>>>,
       <<"NumberOfExtendedTextualFileHeaderRecords", <<"ExtendedHeaders">>>> >>

\* field_mappings of show_field_description (990-1026): segyio name to descriptor key

DescriptionFieldMappings ==
    "JobID" :> "JobIdentificationNumber" @@
    "LineNumber" :> "LineNumber" @@
    "ReelNumber" :> "ReelNumber" @@
    "Traces" :> "NumberOfDataTracesPerRecord" @@
    "AuxTraces" :> "NumberOfAuxiliaryTracesPerRecord" @@
    "Interval" :> "SampleIntervalInMicroseconds" @@
    "IntervalOriginal" :> "SampleIntervalInMicrosecondsOfOriginalFieldRecording" @@
    "Samples" :> "NumberOfSamplesPerDataTrace" @@
    "SamplesOriginal" :> "NumberOfSamplesPerDataTraceForOriginalFieldRecording" @@
    "Format" :> "DataSampleFormat" @@
    "EnsembleFold" :> "EnsembleFold" @@
    "SortingCode" :> "TraceSortingCode" @@
    "VerticalSum" :> "VerticalSumCode" @@
    "SweepFrequencyStart" :> "SweepFrequencyAtStart" @@
    "SweepFrequencyEnd" :> "SweepFrequencyAtEnd" @@
    "SweepLength" :> "SweepLengthInMilliseconds" @@
    "Sweep" :> "SweepTypeCode" @@
    "SweepChannel" :> "SweepChannelNumber" @@
    "SweepTaperStart" :> "SweepTraceTaperLengthAtStartInMilliseconds" @@
    "SweepTaperEnd" :> "SweepTraceTaperLengthAtEndInMilliseconds" @@
    "Taper" :> "TaperType" @@
    "CorrelatedTraces" :> "CorrelatedDataTraces" @@
    "BinaryGainRecovery" :> "BinaryGainRecovered" @@
    "AmplitudeRecovery" :> "AmplitudeRecoveryMethod" @@
    "MeasurementSystem" :> "MeasurementSystem" @@
    "ImpulseSignalPolarity" :> "ImpulseSignalPolarity" @@
    "VibratoryPolarity" :> "VibratoryPolarityCode" @@
    "ExtAuxTraces" :> "ExtendedNumberOfAuxiliaryTracesPerRecord" @@
    "ExtSamples" :> "ExtendedNumberOfSamplesPerDataTrace" @@
    "ExtSamplesOriginal" :> "ExtendedNumberOfSamplesPerDataTraceForOriginalFieldRecording" @@
    "ExtEnsembleFold" :> "ExtendedEnsembleFold" @@
    "SEGYRevision" :> "SEGYFormatRevisionNumber" @@
    "SEGYRevisionMinor" :> "SEGYFormatRevisionNumberMinor" @@
    "TraceFlag" :> "FixedLengthTraceFlag" @@
    "ExtendedHeaders" :> "NumberOfExtendedTextualFileHeaderRecords"

\* byte_locations of show_field_description (1029-1071): segyio name of a binary-header
\* field to the byte range its text starts with

ByteLocations ==
    "JobID" :> <<3201, 3204>> @@ "LineNumber" :> <<3205, 3208>> @@
    "ReelNumber" :> <<3209, 3212>> @@ "Traces" :> <<3213, 3214>> @@
    "AuxTraces" :> <<3215, 3216>> @@ "Interval" :> <<3217, 3218>> @@
    "IntervalOriginal" :> <<3219, 3220>> @@ "Samples" :> <<3221, 3222>> @@
    "SamplesOriginal" :> <<3223, 3224>> @@ "Format" :> <<3225, 3226>> @@
    "EnsembleFold" :> <<3227, 3228>> @@ "SortingCode" :> <<3229, 3230>> @@
    "VerticalSum" :> <<3231, 3232>> @@ "SweepFrequencyStart" :> <<3233, 3234>> @@
    "SweepFrequencyEnd" :> <<3235, 3236>> @@ "SweepLength" :> <<3237, 3238>> @@
    "Sweep" :> <<3239, 3240>> @@ "SweepChannel" :> <<3241, 3242>> @@
    "SweepTaperStart" :> <<3243, 3244>> @@ "SweepTaperEnd" :> <<3245, 3246>> @@
    "Taper" :> <<3247, 3248>> @@ "CorrelatedTraces" :> <<3249, 3250>> @@
    "BinaryGainRecovery" :> <<3251, 3252>> @@ "AmplitudeRecovery" :> <<3253, 3254>> @@
    "MeasurementSystem" :> <<3255, 3256>> @@ "ImpulseSignalPolarity" :> <<3257, 3258>> @@
    "VibratoryPolarity" :> <<3259, 3260>> @@ "ExtAuxTraces" :> <<3261, 3264>> @@
    "ExtSamples" :> <<3265, 3268>> @@ "ExtSamplesOriginal" :> <<3269, 3272>> @@
    "ExtEnsembleFold" :> <<3273, 3280>> @@ "SEGYRevision" :> <<3501, 3501>> @@
    "SEGYRevisionMinor" :> <<3502, 3502>> @@ "TraceFlag" :> <<3503, 3504>> @@
    "ExtendedHeaders" :> <<3505, 3506>> @@ "MaxAdditionalTraceHeaders" :> <<3507, 3510>> @@
    "TimeBasis" :> <<3511, 3512>> @@ "AdditionalTraceHeaderBytes" :> <<3513, 3520>> @@
    "ByteOffset" :> <<3521, 3528>> @@ "AdditionalTraceHeaderSamples" :> <<3529, 3532>>

\* trace_byte_locations of show_trace_field_description (1108-1187): name of a
\* trace-header field to the byte range its text starts with

TraceByteLocations ==
    "TRACE_SEQUENCE_LINE" :> <<1, 4>> @@ "TRACE_SEQUENCE_FILE" :> <<5, 8>> @@
    "FieldRecord" :> <<9, 12>> @@ "TraceNumber" :> <<13, 16>> @@
    "EnergySourcePoint" :> <<17, 20>> @@ "CDP" :> <<21, 24>> @@ "CDP_TRACE" :> <<25, 28>> @@
    "TraceIdentificationCode" :> <<29, 30>> @@ "NSummedTraces" :> <<31, 32>> @@
    "NStackedTraces" :> <<33, 34>> @@ "DataUse" :> <<35, 36>> @@ "offset" :> <<37, 40>> @@
    "ReceiverGroupElevation" :> <<41, 44>> @@ "SourceSurfaceElevation" :> <<45, 48>> @@
    "SourceDepth" :> <<49, 52>> @@ "ReceiverDatumElevation" :> <<53, 56>> @@
    "SourceDatumElevation" :> <<57, 60>> @@ "SourceWaterDepth" :> <<61, 64>> @@
    "GroupWaterDepth" :> <<65, 68>> @@ "ElevationScalar" :> <<69, 70>> @@
    "SourceGroupScalar" :> <<71, 72>> @@ "SourceX" :> <<73, 76>> @@
    "SourceY" :> <<77, 80>> @@ "GroupX" :> <<81, 84>> @@ "GroupY" :> <<85, 88>> @@
    "CoordinateUnits" :> <<89, 90>> @@ "WeatheringVelocity" :> <<91, 92>> @@
    "SubWeatheringVelocity" :> <<93, 94>> @@ "SourceUpholeTime" :> <<95, 96>> @@
    "GroupUpholeTime" :> <<97, 98>> @@ "SourceStaticCorrection" :> <<99, 100>> @@
    "GroupStaticCorrection" :> <<101, 102>> @@ "TotalStaticApplied" :> <<103, 104>> @@
    "LagTimeA" :> <<105, 106>> @@ "LagTimeB" :> <<107, 108>> @@
    "DelayRecordingTime" :> <<109, 110>> @@ "MuteTimeStart" :> <<111, 112>> @@
    "MuteTimeEND" :> <<113, 114>> @@ "TRACE_SAMPLE_COUNT" :> <<115, 116>> @@
    "TRACE_SAMPLE_INTERVAL" :> <<117, 118>> @@ "GainType" :> <<119, 120>> @@
    "InstrumentGainConstant" :> <<121, 122>> @@ "InstrumentInitialGain" :> <<123, 124>> @@
    "Correlated" :> <<125, 126>> @@ "SweepFrequencyStart" :> <<127, 128>> @@
    "SweepFrequencyEnd" :> <<129, 130>> @@ "SweepLength" :> <<131, 132>> @@
    "SweepType" :> <<133, 134>> @@ "SweepTraceTaperLengthStart" :> <<135, 136>> @@
    "SweepTraceTaperLengthEnd" :> <<137, 138>> @@ "TaperType" :> <<139, 140>> @@
    "AliasFilterFrequency" :> <<141, 142>> @@ "AliasFilterSlope" :> <<143, 144>> @@
    "NotchFilterFrequency" :> <<145, 146>> @@ "NotchFilterSlope" :> <<147, 148>> @@
    "LowCutFrequency" :> <<149, 150>> @@ "HighCutFrequency" :> <<151, 152>> @@
    "LowCutSlope" :> <<153, 154>> @@ "HighCutSlope" :> <<155, 156>> @@
    "YearDataRecorded" :> <<157, 158>> @@ "DayOfYear" :> <<159, 160>> @@
    "HourOfDay" :> <<161, 162>> @@ "MinuteOfHour" :> <<163, 164>> @@
    "SecondOfMinute" :> <<165, 166>> @@ "TimeBaseCode" :> <<167, 168>> @@
    "TraceWeightingFactor" :> <<169, 170>> @@ "GeophoneGroupNumberRoll1" :> <<171, 172>> @@
    "GeophoneGroupNumberFirstTraceOrigField" :> <<173, 174>> @@
    "GeophoneGroupNumberLastTraceOrigField" :> <<175, 176>> @@ "GapSize" :> <<177, 178>> @@
    "OverTravel" :> <<179, 180>> @@ "CDP_X" :> <<181, 184>> @@ "CDP_Y" :> <<185, 188>> @@
    "INLINE_3D" :> <<189, 192>> @@ "CROSSLINE_3D" :> <<193, 196>> @@
    "ShotPoint" :> <<197, 200>> @@ "ShotPointScalar" :> <<201, 202>> @@
    "TraceValueMeasurementUnit" :> <<203, 204>>

\* clickable_fields of mousePressEvent (466-477)

ClickableFields ==
    << "JobID", "LineNumber", "ReelNumber", "Traces", "AuxTraces", "Interval",
       "IntervalOriginal", "Samples", "SamplesOriginal", "Format", "EnsembleFold",
       "SortingCode", "VerticalSum", "SweepFrequencyStart", "SweepFrequencyEnd",
       "SweepLength", "Sweep", "SweepChannel", "SweepTaperStart", "SweepTaperEnd", "Taper",
       "CorrelatedTraces", "BinaryGainRecovery", "AmplitudeRecovery", "MeasurementSystem",
       "ImpulseSignalPolarity", "VibratoryPolarity", "ExtAuxTraces", "ExtSamples",
       "ExtSamplesOriginal", "ExtEnsembleFold", "SEGYRevision", "SEGYRevisionMinor",
       "TraceFlag", "ExtendedHeaders", "MaxAdditionalTraceHeaders", "TimeBasis",
       "AdditionalTraceHeaderBytes", "ByteOffset", "AdditionalTraceHeaderSamples" >>

\* trace_header_fields of mousePressEvent (480-502)

TraceHeaderFields ==
    << "TRACE_SEQUENCE_LINE", "TRACE_SEQUENCE_FILE", "FieldRecord", "TraceNumber",
       "EnergySourcePoint", "CDP", "CDP_TRACE", "TraceIdentificationCode", "NSummedTraces",
       "NStackedTraces", "DataUse", "offset", "ReceiverGroupElevation",
       "SourceSurfaceElevation", "SourceDepth", "ReceiverDatumElevation",
       "SourceDatumElevation", "SourceWaterDepth", "GroupWaterDepth", "ElevationScalar",
       "SourceGroupScalar", "SourceX", "SourceY", "GroupX", "GroupY", "CoordinateUnits",
       "WeatheringVelocity", "SubWeatheringVelocity", "SourceUpholeTime",
       "GroupUpholeTime", "SourceStaticCorrection", "GroupStaticCorrection",
       "TotalStaticApplied", "LagTimeA", "LagTimeB", "DelayRecordingTime", "MuteTimeStart",
       "MuteTimeEND", "TRACE_SAMPLE_COUNT", "TRACE_SAMPLE_INTERVAL", "GainType",
       "InstrumentGainConstant", "InstrumentInitialGain", "Correlated",
       "SweepFrequencyStart", "SweepFrequencyEnd", "SweepLength", "SweepType",
       "SweepTraceTaperLengthStart", "SweepTraceTaperLengthEnd", "TaperType",
       "AliasFilterFrequency", "AliasFilterSlope", "NotchFilterFrequency",
       "NotchFilterSlope", "LowCutFrequency", "HighCutFrequency", "LowCutSlope",
       "HighCutSlope", "YearDataRecorded", "DayOfYear", "HourOfDay", "MinuteOfHour",
       "SecondOfMinute", "TimeBaseCode", "TraceWeightingFactor",
       "GeophoneGroupNumberRoll1", "GeophoneGroupNumberFirstTraceOrigField",
       "GeophoneGroupNumberLastTraceOrigField", "GapSize", "OverTravel", "CDP_X", "CDP_Y",
       "INLINE_3D", "CROSSLINE_3D", "ShotPoint", "ShotPointScalar",
       "TraceValueMeasurementUnit" >>

\* clickable_fields of update_headers_display (2102-2111)

DisplayClickableFields ==
    << "JobID", "LineNumber", "ReelNumber", "Traces", "AuxTraces", "Interval",
       "IntervalOriginal", "Samples", "SamplesOriginal", "Format", "EnsembleFold",
       "SortingCode", "VerticalSum", "SweepFrequencyStart", "SweepFrequencyEnd",
       "SweepLength", "Sweep", "SweepChannel", "SweepTaperStart", "SweepTaperEnd", "Taper",
       "CorrelatedTraces", "BinaryGainRecovery", "AmplitudeRecovery", "MeasurementSystem",
       "ImpulseSignalPolarity", "VibratoryPolarity", "ExtAuxTraces", "ExtSamples",
       "ExtSamplesOriginal", "ExtEnsembleFold", "SEGYRevision", "SEGYRevisionMinor",
       "TraceFlag", "ExtendedHeaders" >>

\* a description string, or None
NoDescription == [k |-> "none"]
Description(s) == [k |-> "str", s |-> s]

\* `if description:` (2117, 2124, 2890)
Truthy(d) == d.k = "str" /\ d.s # ""

\* the loop of 1507-1511: the first key, in dictionary order, one of whose
\* variations is the name; "" stands for the None it starts from
RECURSIVE FindDecoderKey(_, _)
FindDecoderKey(field_name_str, i) ==
    IF i > Len(DecodeFieldMappings) THEN ""
    ELSE IF \E j \in DOMAIN DecodeFieldMappings[i][2] :
                DecodeFieldMappings[i][2][j] = field_name_str
         THEN DecodeFieldMappings[i][1]
         ELSE FindDecoderKey(field_name_str, i + 1)

DecodeBinaryHeaderValue_unknown(field_name, value) ==
    IF FindDecoderKey(field_name, 1) # ""
    THEN IF value \in DOMAIN BinaryHeaderDecoder[FindDecoderKey(field_name, 1)]
         THEN Description(BinaryHeaderDecoder[FindDecoderKey(field_name, 1)][value])
         ELSE Description("Unknown value")
    ELSE NoDescription

\* decode_binary_header_value (1460-1520)
DecodeBinaryHeaderValue(field_name, value) ==
    IF FindDecoderKey(field_name, 1) # ""
          /\ FindDecoderKey(field_name, 1) \in DOMAIN BinaryHeaderDecoder
    THEN IF value \in DOMAIN BinaryHeaderDecoder[FindDecoderKey(field_name, 1)]
         THEN Description(BinaryHeaderDecoder[FindDecoderKey(field_name, 1)][value])
         ELSE NoDescription
    ELSE NoDescription

SeqToSet(q) == {q[i] : i \in DOMAIN q}

\* one line of the binary-header listing of update_headers_display (2099-2127):
\* "field: value (description)" or "field: value", the name underlined when
\* it is a clickable field
DisplayLine(e) ==
    [field_name |-> e.field, value |-> e.value,
     underlined |-> e.field \in SeqToSet(DisplayClickableFields),
     note |-> IF Truthy(DecodeBinaryHeaderValue(e.field, e.value))
              THEN DecodeBinaryHeaderValue(e.field, e.value) ELSE NoDescription]

\* one line of the binary-header block of _save_header_info_for_file (2887-2893)
SavedLine(e) ==
    [field_name |-> e.field, value |-> e.value,
     note |-> IF Truthy(DecodeBinaryHeaderValue(e.field, e.value))
              THEN DecodeBinaryHeaderValue(e.field, e.value) ELSE NoDescription]

\* byte_locations.get(field_name, 'Byte location not specified') (1087, 1099)
\* and the same on trace_byte_locations (1199)
ByteInfo(table, field_name) ==
    IF field_name \in DOMAIN table
    THEN [k |-> "range", first |-> table[field_name][1], last |-> table[field_name][2]]
    ELSE [k |-> "unspecified"]

\* show_field_description (985-1103): the byte location of the binary table,
\* with the codes of the field's descriptor when it has one
ShowFieldDescription(field_name) ==
    [via |-> "binary", field_name |-> field_name,
     byte_info |-> ByteInfo(ByteLocations, field_name),
     codes |-> IF field_name \in DOMAIN DescriptionFieldMappings
                  /\ DescriptionFieldMappings[field_name] \in DOMAIN BinaryHeaderDecoder
               THEN DOMAIN BinaryHeaderDecoder[DescriptionFieldMappings[field_name]]
               ELSE {}]

\* show_trace_field_description (1105-1203)
ShowTraceFieldDescription(field_name) ==
    [via |-> "trace", field_name |-> field_name,
     byte_info |-> ByteInfo(TraceByteLocations, field_name), codes |-> {}]

\* mousePressEvent (457-513) with the word under the cursor: what the
\* description pane shows afterwards
MousePressEvent(selected_text, before) ==
    IF selected_text \in SeqToSet(ClickableFields) \cup SeqToSet(TraceHeaderFields)
    THEN IF selected_text \in SeqToSet(TraceHeaderFields)
         THEN ShowTraceFieldDescription(selected_text)
         ELSE ShowFieldDescription(selected_text)
    ELSE before

\* names segyio gives the binary-header fields (str of a BinField), the last
\* one a name none of the tables knows
BinFieldNames == SeqToSet(ClickableFields) \cup {"Unassigned1"}
BinValues == {0 - 1, 0, 1, 3, 17}
\* names of trace-header fields listed by display_trace_info (2057-2065)
TraceFieldWords == {"CDP", "SourceX", "SweepLength", "TaperType"}

\* a binary header as the listings walk it: the entries they reach, here one
\* field, or the sample format followed by a second field
BinHeaders ==
    {<<[field |-> f, value |-> v]>> : f \in BinFieldNames, v \in BinValues}
      \cup {<<[field |-> "Format", value |-> 5], [field |-> f, value |-> v]>> :
                f \in {"SortingCode", "SweepLength"}, v \in BinValues}

InitHeaders ==
    /\ current_bin_headers \in BinHeaders
    /\ headers_text = <<>> /\ saved_text = <<>> /\ field_description = NoField
    /\ range_result = NoCall /\ UtmIdle /\ SelIdle
    /\ NavIdle /\ TimeIdle /\ BatchIdle /\ AmpIdle

\* update_headers_display (2083-2133), the binary-header block
UpdateHeadersDisplay ==
    /\ headers_text = <<>>
    /\ headers_text' = [i \in DOMAIN current_bin_headers |-> DisplayLine(current_bin_headers[i])]
    /\ UNCHANGED <<current_bin_headers, saved_text, field_description, range_result,
                   navVars, timeVars, batchVars, ampVars, utmVars, selVars>>

\* _save_header_info_for_file (2874-2905), the binary-header block
SaveHeaderInfoForFile ==
    /\ saved_text = <<>>
    /\ saved_text' = [i \in DOMAIN current_bin_headers |-> SavedLine(current_bin_headers[i])]
    /\ UNCHANGED <<current_bin_headers, headers_text, field_description, range_result,
                   navVars, timeVars, batchVars, ampVars, utmVars, selVars>>

\* a click on a field name of the binary-header listing (headers_text, 762)
ClickBinaryField ==
    /\ headers_text # <<>>
    /\ \E i \in DOMAIN headers_text :
          field_description' =
              [widget |-> "headers_text", word |-> headers_text[i].field_name,
               pane |-> MousePressEvent(headers_text[i].field_name, field_description.pane)]
    /\ UNCHANGED <<current_bin_headers, headers_text, saved_text, range_result,
                   navVars, timeVars, batchVars, ampVars, utmVars, selVars>>

\* a click on a field name of the trace-header listing (trace_info_text, 830)
ClickTraceField ==
    /\ current_bin_headers # <<>>
    /\ \E w \in TraceFieldWords :
          field_description' =
              [widget |-> "trace_info_text", word |-> w,
               pane |-> MousePressEvent(w, field_description.pane)]
    /\ UNCHANGED <<current_bin_headers, headers_text, saved_text, range_result,
                   navVars, timeVars, batchVars, ampVars, utmVars, selVars>>

NextHeaders ==
    \/ UpdateHeadersDisplay \/ SaveHeaderInfoForFile
    \/ ClickBinaryField \/ ClickTraceField

SpecHeaders == InitHeaders /\ [][NextHeaders]_vars

\* the name stands for some descriptor key, and the value is one of that
\* descriptor's codes
Enumerated(field_name, value) ==
    \E i \in DOMAIN DecodeFieldMappings :
        /\ field_name \in SeqToSet(DecodeFieldMappings[i][2])
        /\ DecodeFieldMappings[i][1] \in DOMAIN BinaryHeaderDecoder
        /\ value \in DOMAIN BinaryHeaderDecoder[DecodeFieldMappings[i][1]]

Lines == SeqToSet(headers_text) \cup SeqToSet(saved_text)

\* C23: decoding gives a description exactly when the field name maps to a
\* descriptor key and the value is one of that descriptor's codes, and None
\* otherwise; a listed line carries the description in the first case and
\* the bare value in the second, never a placeholder.
C23_DescriptionIffEnumerated ==
    /\ \A i \in DOMAIN current_bin_headers :
          LET e == current_bin_headers[i]
          IN IF Enumerated(e.field, e.value)
             THEN Truthy(DecodeBinaryHeaderValue(e.field, e.value))
             ELSE DecodeBinaryHeaderValue(e.field, e.value) = NoDescription
    /\ \A l \in Lines :
          IF Enumerated(l.field_name, l.value)
          THEN /\ Truthy(l.note)
               /\ \E i \in DOMAIN DecodeFieldMappings :
                     /\ l.field_name \in SeqToSet(DecodeFieldMappings[i][2])
                     /\ l.note.s = BinaryHeaderDecoder[DecodeFieldMappings[i][1]][l.value]
          ELSE l.note = NoDescription

\* the sample format 5 followed by a sweep length of 17: the first line is
\* annotated with the IEEE format, the second shows the bare value, on the
\* display and in the saved text
C23_Witness ==
    /\ current_bin_headers = <<[field |-> "Format", value |-> 5],
                               [field |-> "SweepLength", value |-> 17]>>
    /\ Len(headers_text) = 2 /\ Len(saved_text) = 2
    /\ headers_text[1].note = Description("4-byte IEEE floating-point")
    /\ headers_text[2].note = NoDescription
    /\ saved_text[1].note = Description("4-byte IEEE floating-point")
    /\ saved_text[2].note = NoDescription

BinaryBytes == [first |-> 3201, last |-> 3532]
TraceBytes == [first |-> 1, last |-> 240]

\* the pane shows a byte range of the given table, reached through it
ResolvedThrough(pane, via, bytes) ==
    /\ pane.via = via
    /\ pane.byte_info.k = "range"
    /\ bytes.first <= pane.byte_info.first /\ pane.byte_info.last <= bytes.last

\* C24: no field name that is looked up is in both descriptor tables; a
\* binary-header field name clicked in the binary-header listing is answered
\* from the binary table, with bytes in 3201-3532, and a trace-header field
\* name clicked in the trace-header listing from the trace table, with bytes
\* in 1-240.
C24_TablesDisjoint ==
    /\ field_description.word \notin DOMAIN ByteLocations \cap DOMAIN TraceByteLocations
    /\ field_description.word \notin SeqToSet(ClickableFields) \cap SeqToSet(TraceHeaderFields)
    /\ (field_description.widget = "headers_text"
           /\ field_description.word \in DOMAIN ByteLocations)
          => ResolvedThrough(field_description.pane, "binary", BinaryBytes)
    /\ (field_description.widget = "trace_info_text"
           /\ field_description.word \in DOMAIN TraceByteLocations)
          => ResolvedThrough(field_description.pane, "trace", TraceBytes)

---------------------------------------------------------------------------
\* The choice of the spatial reference

\* len(str(int(abs(x)))) >= 5 for an integer x
FiveDigits(x) == Abs(x) >= 10000

\* _is_utm_coordinates (3218-3241)
IsUtmCoordinates(x, y) ==
    LET utm_x_range == 100000 <= Abs(x) /\ Abs(x) <= 900000
        utm_y_range == 0 <= y /\ y <= 10000000
        large_numbers == Abs(x) > 10000 /\ y > 10000
        reasonable_precision == FiveDigits(x) /\ FiveDigits(y)
        not_degrees == ~((0 - 180 <= x /\ x <= 180) /\ (0 - 90 <= y /\ y <= 90))
        invalid_seconds_arc == Abs(x) > 648000 \/ Abs(y) > 648000
    IN (utm_x_range /\ utm_y_range)
         \/ (large_numbers /\ reasonable_precision /\ not_degrees /\ invalid_seconds_arc)

\* the reference given to the point layer (3089-3095, 3120-3125): geographic
\* for the angular unit codes, the UTM placeholder when the heuristic says
\* so, none otherwise; the coordinates go to the file as they are
ChooseCrs(x, y, coord_units) ==
    [utm |-> IsUtmCoordinates(x, y),
     crs |-> IF coord_units \in {2, 3, 4} THEN "EPSG:4326"
             ELSE IF IsUtmCoordinates(x, y) THEN "EPSG:32633"
             ELSE "none",
     x |-> x, y |-> y]

\* coordinates around every threshold of the heuristic
EastingProbes ==
    {0, 180, 181, 10000, 10001, 99999, 100000, 648000, 648001, 900000, 900001, 2000000}
        \cup {0 - 181, 0 - 100000, 0 - 648001, 0 - 900001}
NorthingProbes ==
    {0 - 1, 0, 90, 91, 10000, 10001, 648000, 648001, 10000000, 10000001}

InitUtm ==
    /\ utm_x \in EastingProbes /\ utm_y \in NorthingProbes
    /\ utm_units \in {1, 2}
    /\ utm_result = NoChoice
    /\ range_result = NoCall /\ HeaderIdle /\ SelIdle
    /\ NavIdle /\ TimeIdle /\ BatchIdle /\ AmpIdle

SetPointCrs ==
    /\ utm_result = NoChoice
    /\ utm_result' = ChooseCrs(utm_x, utm_y, utm_units)
    /\ UNCHANGED <<utm_x, utm_y, utm_units, range_result, headerVars, selVars,
                   navVars, timeVars, batchVars, ampVars>>

NextUtm == SetPointCrs

SpecUtm == InitUtm /\ [][NextUtm]_vars

\* the coordinates are a valid pair of degrees, or of arc-seconds
InDegreeRanges(x, y) == Abs(x) <= 180 /\ Abs(y) <= 90
InArcSecondRanges(x, y) == Abs(x) <= 648000 /\ Abs(y) <= 648000

\* C25: the heuristic answers true exactly when |x| is in [1e5, 9e5] and y
\* in [0, 1e7] and the pair is neither in the degree ranges nor in the
\* arc-second ranges; the answer only picks the reference tag, and the
\* coordinates written are the coordinates given.
C25_UtmHeuristic ==
    utm_result # NoChoice =>
        /\ utm_result.utm =
              (/\ 100000 <= Abs(utm_x) /\ Abs(utm_x) <= 900000
               /\ 0 <= utm_y /\ utm_y <= 10000000
               /\ ~InDegreeRanges(utm_x, utm_y)
               /\ ~InArcSecondRanges(utm_x, utm_y))
        /\ utm_result.x = utm_x /\ utm_result.y = utm_y
        /\ utm_result.crs \in {"EPSG:4326", "EPSG:32633", "none"}

---------------------------------------------------------------------------
\* The two export paths on one table

\* what the claim compares of a point record
NavOfPoint(r) ==
    [TRACE_NUM |-> r.TRACE_NUM, xy |-> r.geometry, COORD_UNIT |-> r.COORD_UNIT,
     SCALAR |-> r.SCALAR, ELEVATION |-> r.ELEVATION, DATETIME |-> r.DATETIME]

NavOf(points) == [i \in DOMAIN points |-> NavOfPoint(points[i])]

\* the export of the same table by the path that was not taken
OtherPath ==
    IF export_path = "batch" THEN CreateCdpShapefile(trace_headers, TRUE, TRUE)
    ELSE SaveShapefileForFile(trace_headers, TRUE, TRUE)

\* C26: the batch path and the interactive path give, for the same table,
\* the same surviving traces in the same order, the same (x, y), unit code,
\* scalar, elevation and timestamp per point, and the same polyline.
C26_PathsAgree ==
    Exported =>
        /\ NavOf(cdp_data) = NavOf(OtherPath.cdp_data)
        /\ line_coords = OtherPath.line_coords

---------------------------------------------------------------------------
\* The batch outputs

\* the file at position i of the list was counted in processed_count
CountedProcessed(i) == ProcessOneFile(filenames[i]).processed = 1

\* C27: every record of the combined point output and of the combined line
\* output comes from a file that was counted in processed_count, none from
\* a file counted in error_count.
C27_CombinedOnlyFromProcessed ==
    /\ \A k \in DOMAIN combined_points : CountedProcessed(combined_points[k].from)
    /\ \A k \in DOMAIN combined_lines : CountedProcessed(combined_lines[k].from)

\* no element occurs twice in the sequence
NoRepeat(q) == \A i, j \in DOMAIN q : i # j => q[i] # q[j]

\* C28: every output a file of the batch has written is still that file's
\* (no later file of the batch wrote to the same path), and the list of
\* point shapefiles handed to the merge names no path twice.
C28_OutputPathsDistinct ==
    /\ \A i \in 1..file_index :
          \A o \in ProcessOneFile(filenames[i]).outputs :
              \E e \in disk : e.path = o.path /\ e.from = i
    /\ NoRepeat(all_point_shapefiles)

\* C29: whatever an export reports was written: the completion message names
\* the combined shapefiles only when the combine step ended without error, and
\* every point or line path a file's export returned to the batch loop is a
\* file in the output directory
C29_ReportedPathsWritten ==
    /\ completion_message.combined # <<>> => combined = "written"
    /\ \A i \in 1..Len(all_point_shapefiles) :
          \E e \in disk : e.path = all_point_shapefiles[i]
    /\ \A i \in 1..Len(all_line_shapefiles) :
          \E e \in disk : e.path = all_line_shapefiles[i]

---------------------------------------------------------------------------
\* Trace selection: the Back and Forward buttons, the trace-number field and
\* the middle-button click on the plot

RECURSIVE LStrip(_), RStrip(_), DigitsValue(_, _)
LStrip(s) == IF s # <<>> /\ Head(s) = " " THEN LStrip(Tail(s)) ELSE s
RStrip(s) == IF s # <<>> /\ s[Len(s)] = " " THEN RStrip(SubSeq(s, 1, Len(s) - 1)) ELSE s

\* the value of a run of decimal digits, not ok when another character occurs
DigitsValue(s, acc) ==
    IF s = <<>> THEN [ok |-> TRUE, v |-> acc]
    ELSE IF \E i \in 1..10 : Digits[i] = Head(s)
         THEN DigitsValue(Tail(s), acc * 10 + (CHOOSE i \in 1..10 : Digits[i] = Head(s)) - 1)
         ELSE [ok |-> FALSE, v |-> 0]

\* int(text) at 940: surrounding blanks are dropped, one sign is allowed, the
\* rest must be a non-empty run of digits; not ok stands for ValueError
ParseInt(text) ==
    LET t == RStrip(LStrip(text))
        signed == t # <<>> /\ Head(t) \in {"+", "-"}
        body == IF signed THEN Tail(t) ELSE t
        r == DigitsValue(body, 0)
    IN IF body = <<>> \/ ~r.ok THEN [ok |-> FALSE, v |-> 0]
       ELSE [ok |-> TRUE, v |-> IF signed /\ Head(t) = "-" THEN 0 - r.v ELSE r.v]

\* int(round(x)) at 337 for x = h / 2: Python rounds a half to the even neighbour
RoundHalves(h) ==
    IF h % 2 = 0 THEN h \div 2
    ELSE IF ((h - 1) \div 2) % 2 = 0 THEN (h - 1) \div 2 ELSE (h - 1) \div 2 + 1

\* trace_back (927-930)
TraceBack(file_info, sel) ==
    IF sel.current_trace_number > 1
    THEN SelectTrace(file_info, sel.current_trace_number - 1, sel)
    ELSE sel

\* trace_forward (932-935)
TraceForward(file_info, sel) ==
    IF file_info # NoFileInfo /\ sel.current_trace_number < file_info.n_traces
    THEN SelectTrace(file_info, sel.current_trace_number + 1, sel)
    ELSE sel

\* on_trace_number_entered (937-944): text that is no integer is replaced by
\* the selected number
OnTraceNumberEntered(file_info, sel) ==
    IF ParseInt(sel.trace_number_input).ok
    THEN SelectTrace(file_info, ParseInt(sel.trace_number_input).v, sel)
    ELSE Selection(sel.current_trace_number, StrOfInt(sel.current_trace_number))

\* on_click (320-348) followed by its callback on_trace_selected (2021-2025);
\* the plot widget holds the data and file_info update_plot gave it (241-242),
\* xdata is <<>> for None and <<h>> for the position h / 2
OnClick(data, file_info, event, sel) ==
    IF event.button # 2 THEN sel
    ELSE IF ~event.inaxes \/ data = <<>> THEN sel
    ELSE IF event.xdata = <<>> THEN sel
    ELSE IF RoundHalves(event.xdata[1]) < 1
            \/ RoundHalves(event.xdata[1]) > file_info.n_traces THEN sel
    ELSE SelectTrace(file_info, RoundHalves(event.xdata[1]), sel)

\* files of one sample per trace
SelMatrices == {[t \in 1..n |-> <<v>>] : n \in 1..MaxTraces, v \in {0, 3}}

\* what the user may type into the field before pressing Return or Go
EnteredTexts ==
    {StrOfInt(n) : n \in (0 - 1)..(MaxTraces + 1)}
        \cup {<<>>, <<"7">>, <<" ", "2", " ">>, <<"+", "1">>, <<"2", ".", "5">>, <<"a">>}

\* mouse presses on the canvas
ClickEvents ==
    [button : {1, 2}, inaxes : BOOLEAN,
     xdata : {<<>>} \cup {<<h>> : h \in 0..(2 * MaxTraces + 2)}]

\* a load finishes, in the empty window or over the file on display
LoadFinished ==
    \E data \in SelMatrices, dt \in SampleIntervals : OnFileLoaded(data, dt)

\* the selection handlers leave everything but the selection alone
Select(sel) ==
    /\ current_trace_number' = sel.current_trace_number
    /\ trace_number_input' = sel.trace_number_input
    /\ UNCHANGED <<navVars, timeVars, batchVars, ampVars, range_result, headerVars, utmVars>>

\* the Back button is enabled by select_trace while the selection is past
\* the first trace (788, 961)
TraceBackClicked ==
    /\ Loaded /\ current_trace_number > 1
    /\ Select(TraceBack(current_file_info,
                        Selection(current_trace_number, trace_number_input)))

\* the Forward button is enabled while the selection is before the last
\* trace (808, 962)
TraceForwardClicked ==
    /\ Loaded /\ current_trace_number < current_file_info.n_traces
    /\ Select(TraceForward(current_file_info,
                           Selection(current_trace_number, trace_number_input)))

\* the user types text into the field and presses Return (800); the field
\* is never disabled before a load
EnterTraceNumber(text) ==
    Select(OnTraceNumberEntered(current_file_info, Selection(current_trace_number, text)))

TraceNumberEntered == \E text \in EnteredTexts : EnterTraceNumber(text)

ClickPlot(event) ==
    Select(OnClick(current_data, current_file_info, event,
                   Selection(current_trace_number, trace_number_input)))

PlotClicked == \E event \in ClickEvents : ClickPlot(event)

NextSel ==
    LoadFinished \/ TraceBackClicked \/ TraceForwardClicked \/ TraceNumberEntered
        \/ PlotClicked

SpecSel == InitAmp /\ [][NextSel]_vars

\* n is no trace number of the loaded file
OutOfRange(n) == n < 1 \/ n > current_file_info.n_traces

\* C30: once a file is loaded, whatever loads, Back, Forward, go-to-number and
\* plot-click events follow, 1 <= current_trace_number <= n_traces of the
\* loaded file; a number entered or clicked outside that range leaves the
\* selected trace as it was
C30_SelectedTraceInRange ==
    /\ [](Loaded => (1 <= current_trace_number
                     /\ current_trace_number <= current_file_info.n_traces))
    /\ [][/\ \A text \in EnteredTexts :
               (EnterTraceNumber(text) /\ ParseInt(text).ok /\ OutOfRange(ParseInt(text).v))
                   => current_trace_number' = current_trace_number
          /\ \A event \in ClickEvents :
               (ClickPlot(event) /\ event.xdata # <<>>
                                 /\ OutOfRange(RoundHalves(event.xdata[1])))
                   => current_trace_number' = current_trace_number]_vars

\* with the second of two traces selected, 7 was entered and refused
C30_Witness ==
    /\ Loaded
    /\ current_file_info.n_traces = 2
    /\ current_trace_number = 2
    /\ trace_number_input = <<"7">>

====
